---------------------------- MODULE Spec2Model ----------------------------
(***************************************************************************)
(* NavAI extension: the planner (shared/planner.ts) and the session        *)
(* orchestrator of the background service worker (content.ts, second       *)
(* half), as a state machine.                                              *)
(*                                                                         *)
(* JavaScript strings are sequences of one-character strings, so that      *)
(* includes/substring/toLowerCase/match are computed and not assumed.      *)
(* Optional fields use the sentinel Undef (strings) or "undefined"         *)
(* (booleans, whose other values are "true" and "false").                  *)
(***************************************************************************)
EXTENDS Integers, Sequences, FiniteSets, TLC

\* ───────────────────────── bounds of the model ─────────────────────────
MaxStep == 3
MaxHist == 1
MaxTimers == 1
MaxRetries == 1

\* ───────────────────────── JavaScript strings ──────────────────────────
Undef == <<"#undefined">>

UpperChars == <<"A", "B", "C", "D", "E", "F", "G", "H", "I", "J", "K", "L", "M", "N", "O", "P", "Q", "R", "S", "T", "U", "V", "W", "X", "Y", "Z">>
LowerChars == <<"a", "b", "c", "d", "e", "f", "g", "h", "i", "j", "k", "l", "m", "n", "o", "p", "q", "r", "s", "t", "u", "v", "w", "x", "y", "z">>
Digits == {"0", "1", "2", "3", "4", "5", "6", "7", "8", "9"}

Range(s) == {s[i] : i \in 1..Len(s)}

toLowerChar(c) ==
  IF \E i \in 1..26 : UpperChars[i] = c
    THEN LowerChars[CHOOSE i \in 1..26 : UpperChars[i] = c]
    ELSE c

toLowerCase(s) == [i \in 1..Len(s) |-> toLowerChar(s[i])]

Min(a, b) == IF a < b THEN a ELSE b

\* s.substring(0, n)
substring(s, n) == SubSeq(s, 1, Min(n, Len(s)))

\* the characters s[from..to] that exist
slice(s, from, to) ==
  IF from > Min(to, Len(s)) THEN <<>> ELSE SubSeq(s, from, Min(to, Len(s)))

\* s.includes(w)
includes(s, w) ==
  \E i \in 0..(Len(s) - Len(w)) : SubSeq(s, i + 1, i + Len(w)) = w

\* s.startsWith(w)
startsWith(s, w) == Len(w) <= Len(s) /\ SubSeq(s, 1, Len(w)) = w

\* a ?? ''
orEmpty(s) == IF s = Undef THEN <<>> ELSE s

\* a || b on strings: the empty string and undefined are falsy
orElse(a, b) == IF a = Undef \/ a = <<>> THEN b ELSE a

isSpace(c) == c = " "
isWordChar(c) == c \in Range(LowerChars) \/ c \in Range(UpperChars) \/ c \in Digits \/ c = "_"

RECURSIVE splitWs(_, _, _)
\* s.split(/\s+/), cur is the piece being read, out the pieces read so far
splitWs(s, cur, out) ==
  IF s = <<>> THEN Append(out, cur)
  ELSE IF isSpace(Head(s))
    THEN IF Len(s) > 1 /\ isSpace(s[2])
           THEN splitWs(Tail(s), cur, out)
           ELSE splitWs(Tail(s), <<>>, Append(out, cur))
    ELSE splitWs(Tail(s), Append(cur, Head(s)), out)

\* the number of iterations of "for (const w of ws)" whose word is in hits
count(ws, hits) == Cardinality({i \in 1..Len(ws) : ws[i] \in hits})

\* ───────────────────────── planner.ts: word lists ──────────────────────
STOP_WORDS ==
  { <<"a">>,
     <<"a", "n">>,
     <<"t", "h", "e">>,
     <<"f", "o", "r">>,
     <<"t", "o">>,
     <<"o", "f">>,
     <<"i", "n">>,
     <<"o", "n">>,
     <<"a", "n", "d">>,
     <<"o", "r">>,
     <<"i", "s">>,
     <<"m", "y">>,
     <<"i">>,
     <<"i", "t">>,
     <<"t", "h", "i", "s">>,
     <<"t", "h", "a", "t">>,
     <<"d", "o">>,
     <<"y", "o", "u">>,
     <<"y", "o", "u", "r">>,
     <<"m", "e">>,
     <<"c", "a", "n">>,
     <<"w", "i", "l", "l">>,
     <<"h", "o", "w">> }

CTA ==
  << <<"a", "p", "p", "l", "y">>,
     <<"s", "t", "a", "r", "t">>,
     <<"n", "e", "x", "t">>,
     <<"c", "o", "n", "t", "i", "n", "u", "e">>,
     <<"s", "u", "b", "m", "i", "t">>,
     <<"s", "e", "a", "r", "c", "h">>,
     <<"b", "o", "o", "k">>,
     <<"c", "o", "n", "f", "i", "r", "m">>,
     <<"p", "r", "o", "c", "e", "e", "d">>,
     <<"s", "i", "g", "n", " ", "i", "n">>,
     <<"l", "o", "g", " ", "i", "n">>,
     <<"r", "e", "g", "i", "s", "t", "e", "r">>,
     <<"e", "n", "r", "o", "l", "l">>,
     <<"f", "l", "i", "g", "h", "t">>,
     <<"h", "o", "t", "e", "l">>,
     <<"a", "d", "d">>,
     <<"c", "r", "e", "a", "t", "e">>,
     <<"s", "e", "n", "d">>,
     <<"s", "a", "v", "e">>,
     <<"c", "h", "e", "c", "k", "o", "u", "t">>,
     <<"b", "u", "y">>,
     <<"o", "r", "d", "e", "r">>,
     <<"p", "a", "y">>,
     <<"b", "e", "g", "i", "n">>,
     <<"g", "e", "t", " ", "s", "t", "a", "r", "t", "e", "d">>,
     <<"g", "o">>,
     <<"e", "n", "t", "e", "r">>,
     <<"o", "p", "e", "n">> >>

PROGRESS ==
  << <<"n", "e", "x", "t">>,
     <<"c", "o", "n", "t", "i", "n", "u", "e">>,
     <<"p", "r", "o", "c", "e", "e", "d">>,
     <<"s", "u", "b", "m", "i", "t">>,
     <<"c", "o", "n", "f", "i", "r", "m">>,
     <<"d", "o", "n", "e">>,
     <<"f", "i", "n", "i", "s", "h">>,
     <<"c", "o", "m", "p", "l", "e", "t", "e">>,
     <<"s", "a", "v", "e">>,
     <<"s", "e", "n", "d">>,
     <<"a", "p", "p", "l", "y">> >>

PENALTY ==
  << <<"l", "o", "g", "o", "u", "t">>,
     <<"l", "o", "g", " ", "o", "u", "t">>,
     <<"s", "i", "g", "n", " ", "o", "u", "t">>,
     <<"c", "a", "n", "c", "e", "l">>,
     <<"b", "a", "c", "k">>,
     <<"c", "l", "o", "s", "e">>,
     <<"s", "k", "i", "p">>,
     <<"n", "o", " ", "t", "h", "a", "n", "k", "s">>,
     <<"m", "a", "y", "b", "e", " ", "l", "a", "t", "e", "r">>,
     <<"d", "i", "s", "m", "i", "s", "s">>,
     <<"a", "d", "v", "e", "r", "t", "i", "s", "e", "m", "e", "n", "t">>,
     <<"a", "d">>,
     <<"c", "o", "o", "k", "i", "e">>,
     <<"p", "r", "i", "v", "a", "c", "y">>,
     <<"t", "e", "r", "m", "s">>,
     <<"u", "n", "s", "u", "b", "s", "c", "r", "i", "b", "e">>,
     <<"d", "e", "c", "l", "i", "n", "e">>,
     <<"r", "e", "j", "e", "c", "t">> >>

LOGIN_WORDS ==
  << <<"s", "i", "g", "n", " ", "i", "n">>,
     <<"l", "o", "g", " ", "i", "n">>,
     <<"l", "o", "g", "i", "n">>,
     <<"s", "i", "g", "n", "i", "n">>,
     <<"e", "m", "a", "i", "l">>,
     <<"u", "s", "e", "r", "n", "a", "m", "e">>,
     <<"p", "a", "s", "s", "w", "o", "r", "d">> >>

SUCCESS_WORDS ==
  << <<"s", "u", "c", "c", "e", "s", "s">>,
     <<"t", "h", "a", "n", "k", " ", "y", "o", "u">>,
     <<"t", "h", "a", "n", "k", "s">>,
     <<"c", "o", "n", "g", "r", "a", "t", "u", "l", "a", "t", "i", "o", "n", "s">>,
     <<"c", "o", "n", "f", "i", "r", "m", "e", "d">>,
     <<"c", "o", "m", "p", "l", "e", "t", "e">>,
     <<"s", "u", "b", "m", "i", "t", "t", "e", "d">>,
     <<"d", "o", "n", "e">>,
     <<"r", "e", "c", "e", "i", "p", "t">>,
     <<"o", "r", "d", "e", "r", " ", "p", "l", "a", "c", "e", "d">>,
     <<"b", "o", "o", "k", "i", "n", "g", " ", "c", "o", "n", "f", "i", "r", "m", "e", "d">>,
     <<"p", "a", "y", "m", "e", "n", "t", " ", "r", "e", "c", "e", "i", "v", "e", "d">> >>

tokenize(s) ==
  LET lower == toLowerCase(s)
      clean == [i \in 1..Len(lower) |->
                  IF lower[i] \in Range(LowerChars) \/ lower[i] \in Digits \/ isSpace(lower[i])
                    THEN lower[i] ELSE " "]
      keep(w) == Len(w) > 1 /\ w \notin STOP_WORDS
  IN  SelectSeq(splitWs(clean, <<>>, <<>>), keep)

\* ───────────────────────── types.ts ────────────────────────────────────
ActionType == {"click", "type", "select", "scroll", "wait"}
PlannerMode == {"heuristic", "llm"}

PageElement(idx, tag, role, text, label, selector, rect, isInput, inputType, placeholder, value, isRequired, isFilled, isInViewport, isInDialog) ==
  [idx |-> idx, tag |-> tag, role |-> role, text |-> text, label |-> label,
   selector |-> selector, rect |-> rect, isInput |-> isInput,
   inputType |-> inputType, placeholder |-> placeholder, value |-> value,
   isRequired |-> isRequired, isFilled |-> isFilled,
   isInViewport |-> isInViewport, isInDialog |-> isInDialog]

GuidanceStep(stepNumber, action, selector, textHint, instruction) ==
  [stepNumber |-> stepNumber, action |-> action, selector |-> selector,
   textHint |-> textHint, instruction |-> instruction]

ActionRecord(step, action, selector, text) ==
  [step |-> step, action |-> action, selector |-> selector, text |-> text]

\* null for GuidanceStep | null
null == [stepNumber |-> 0]

\* ───────────────────────── page snapshots (PageData) ───────────────────
Rect(top, width, height) == [top |-> top, left |-> 20, width |-> width, height |-> height]

\* an application form: one empty required input, one filled input, a button
PageForm ==
  [url |-> <<"h", "t", "t", "p", "s", ":", "/", "/", "d", "m", "v", ".", "e", "x", "a", "m", "p", "l", "e", "/", "a", "p", "p", "l", "y">>, title |-> <<"D", "r", "i", "v", "e", "r", " ", "L", "i", "c", "e", "n", "s", "e", " ", "A", "p", "p", "l", "i", "c", "a", "t", "i", "o", "n">>,
   hasOpenDialog |-> FALSE,
   elements |-> <<
     PageElement(0, <<"i", "n", "p", "u", "t">>, <<"i", "n", "p", "u", "t">>, <<>>, <<"F", "u", "l", "l", " ", "N", "a", "m", "e">>, "#name", Rect(100, 200, 32),
                 TRUE, <<"t", "e", "x", "t">>, Undef, <<>>, "true", "false", TRUE, FALSE),
     PageElement(1, <<"i", "n", "p", "u", "t">>, <<"i", "n", "p", "u", "t">>, <<>>, <<"E", "m", "a", "i", "l">>, "#email", Rect(150, 200, 32),
                 TRUE, <<"e", "m", "a", "i", "l">>, Undef, <<"a", "@", "b", ".", "c">>, "false", "true", TRUE, FALSE),
     PageElement(2, <<"b", "u", "t", "t", "o", "n">>, <<"b", "u", "t", "t", "o", "n">>, <<"S", "u", "b", "m", "i", "t">>, <<>>, "#submit", Rect(200, 120, 36),
                 FALSE, Undef, Undef, Undef, "undefined", "undefined", TRUE, FALSE) >>]

\* a compose panel over a page: "Send" inside the panel, "Submit" behind it
PageDialog ==
  [url |-> <<"h", "t", "t", "p", "s", ":", "/", "/", "m", "a", "i", "l", ".", "e", "x", "a", "m", "p", "l", "e", "/", "i", "n", "b", "o", "x">>, title |-> <<"I", "n", "b", "o", "x">>,
   hasOpenDialog |-> TRUE,
   elements |-> <<
     PageElement(0, <<"b", "u", "t", "t", "o", "n">>, <<"b", "u", "t", "t", "o", "n">>, <<"S", "e", "n", "d">>, <<>>, "#send", Rect(300, 120, 36),
                 FALSE, Undef, Undef, Undef, "undefined", "undefined", TRUE, TRUE),
     PageElement(1, <<"b", "u", "t", "t", "o", "n">>, <<"b", "u", "t", "t", "o", "n">>, <<"S", "u", "b", "m", "i", "t">>, <<>>, "#submit", Rect(500, 120, 36),
                 FALSE, Undef, Undef, Undef, "undefined", "undefined", TRUE, FALSE) >>]

\* a page that names a completion word in its title
PageSuccess ==
  [url |-> <<"h", "t", "t", "p", "s", ":", "/", "/", "d", "m", "v", ".", "e", "x", "a", "m", "p", "l", "e", "/", "r", "e", "c", "e", "i", "p", "t">>, title |-> <<"T", "h", "a", "n", "k", " ", "y", "o", "u">>,
   hasOpenDialog |-> FALSE,
   elements |-> <<
     PageElement(0, <<"a">>, <<"a">>, <<"H", "o", "m", "e">>, <<>>, "#home", Rect(80, 60, 20),
                 FALSE, Undef, Undef, Undef, "undefined", "undefined", TRUE, FALSE) >>]

\* ───────────────────────── elements the planner is run against ────────
ElName == PageForm.elements[1]
ElEmail == PageForm.elements[2]
ElSubmit == PageForm.elements[3]

\* an optional empty input whose label names the goal
ElLicense ==
  PageElement(0, <<"i", "n", "p", "u", "t">>, <<"i", "n", "p", "u", "t">>, <<>>, <<"D", "r", "i", "v", "e", "r", " ", "L", "i", "c", "e", "n", "s", "e", " ", "N", "u", "m", "b", "e", "r">>, "#license", Rect(250, 200, 32),
              TRUE, <<"t", "e", "x", "t">>, Undef, <<>>, "false", "false", TRUE, FALSE)

\* an empty required password input
ElPassword ==
  PageElement(0, <<"i", "n", "p", "u", "t">>, <<"i", "n", "p", "u", "t">>, <<>>, <<"P", "a", "s", "s", "w", "o", "r", "d">>, "#password", Rect(300, 200, 32),
              TRUE, <<"p", "a", "s", "s", "w", "o", "r", "d">>, Undef, <<>>, "true", "false", TRUE, FALSE)

\* an empty required drop-down
ElCountry ==
  PageElement(0, <<"s", "e", "l", "e", "c", "t">>, <<"s", "e", "l", "e", "c", "t">>, <<>>, <<"C", "o", "u", "n", "t", "r", "y">>, "#country", Rect(350, 200, 32),
              TRUE, Undef, Undef, <<>>, "true", "false", TRUE, FALSE)

\* an unticked checkbox whose label carries two PENALTY words
ElAgree ==
  PageElement(0, <<"i", "n", "p", "u", "t">>, <<"i", "n", "p", "u", "t">>, <<>>, <<"A", "c", "c", "e", "p", "t", " ", "p", "r", "i", "v", "a", "c", "y", " ", "t", "e", "r", "m", "s">>, "#agree", Rect(400, 16, 16),
              TRUE, <<"c", "h", "e", "c", "k", "b", "o", "x">>, Undef, <<>>, "false", "false", TRUE, FALSE)

\* a second unticked checkbox whose label carries two PENALTY words
ElSkip ==
  PageElement(0, <<"i", "n", "p", "u", "t">>, <<"i", "n", "p", "u", "t">>, <<>>, <<"S", "k", "i", "p", " ", "c", "o", "o", "k", "i", "e", " ", "n", "o", "t", "i", "c", "e">>, "#skip", Rect(420, 16, 16),
              TRUE, <<"c", "h", "e", "c", "k", "b", "o", "x">>, Undef, <<>>, "false", "false", TRUE, FALSE)

\* a link whose text names the goal
ElApply ==
  PageElement(0, <<"a">>, <<"a">>, <<"A", "p", "p", "l", "y", " ", "f", "o", "r", " ", "d", "r", "i", "v", "e", "r", "'", "s", " ", "l", "i", "c", "e", "n", "s", "e">>, <<>>, "#apply", Rect(450, 180, 20),
              FALSE, Undef, Undef, Undef, "undefined", "undefined", TRUE, FALSE)

\* a button whose text is a PENALTY word
ElCancel ==
  PageElement(0, <<"b", "u", "t", "t", "o", "n">>, <<"b", "u", "t", "t", "o", "n">>, <<"C", "a", "n", "c", "e", "l">>, <<>>, "#cancel", Rect(500, 120, 36),
              FALSE, Undef, Undef, Undef, "undefined", "undefined", TRUE, FALSE)

\* a second button whose text is a PENALTY word
ElClose ==
  PageElement(0, <<"b", "u", "t", "t", "o", "n">>, <<"b", "u", "t", "t", "o", "n">>, <<"C", "l", "o", "s", "e">>, <<>>, "#close", Rect(520, 120, 36),
              FALSE, Undef, Undef, Undef, "undefined", "undefined", TRUE, FALSE)

\* a button whose text is a SUCCESS word
ElDone ==
  PageElement(0, <<"b", "u", "t", "t", "o", "n">>, <<"b", "u", "t", "t", "o", "n">>, <<"D", "o", "n", "e">>, <<>>, "#done", Rect(550, 120, 36),
              FALSE, Undef, Undef, Undef, "undefined", "undefined", TRUE, FALSE)

\* a link below the viewport whose text is a PENALTY word
ElFooter ==
  PageElement(0, <<"a">>, <<"a">>, <<"P", "r", "i", "v", "a", "c", "y">>, <<>>, "#footer", Rect(2000, 60, 20),
              FALSE, Undef, Undef, Undef, "undefined", "undefined", FALSE, FALSE)

\* in the order extractPage's sort gives them: in-viewport first, then by rect.top
PlannerPool ==
  <<ElName, ElEmail, ElSubmit, ElLicense, ElPassword, ElCountry, ElAgree, ElSkip,
    ElApply, ElCancel, ElClose, ElDone, ElFooter>>

MaxElements == 3

\* the i-th smallest position of picked
nthPicked(picked, i) == CHOOSE x \in picked : Cardinality({y \in picked : y < x}) = i - 1

\* capped.map((item, idx) => ...) on the pool elements at the positions picked
PlannerPage(picked) ==
  [url |-> PageForm.url, title |-> PageForm.title, hasOpenDialog |-> FALSE,
   elements |-> [i \in 1..Cardinality(picked) |->
                   [PlannerPool[nthPicked(picked, i)] EXCEPT !.idx = i - 1]]]

\* the pages of at most MaxElements pool elements
PlannerSnapshots ==
  {PlannerPage(picked) : picked \in {S \in SUBSET (1..Len(PlannerPool)) : Cardinality(S) <= MaxElements}}

PageIds == {"form", "dialog", "success"}

PageData(id) ==
  CASE id = "form" -> PageForm
    [] id = "dialog" -> PageDialog
    [] id = "success" -> PageSuccess

Goals == {<<"a", "p", "p", "l", "y", " ", "f", "o", "r", " ", "d", "r", "i", "v", "e", "r", "'", "s", " ", "l", "i", "c", "e", "n", "s", "e">>}

PlannerGoals == Goals \cup {<<"b", "o", "o", "k", " ", "a", " ", "f", "l", "i", "g", "h", "t">>}

\* ───────────────────────── planner.ts: phase detection ─────────────────
RECURSIVE joinWith(_, _)
\* strs.join(sep)
joinWith(strs, sep) ==
  IF strs = <<>> THEN <<>>
  ELSE IF Len(strs) = 1 THEN strs[1]
  ELSE strs[1] \o sep \o joinWith(Tail(strs), sep)

\* a detector that looks at the inputs only
detectPhaseByInputs(page) ==
  IF \E e \in Range(page.elements) : e.isInput /\ e.isFilled # "true" THEN "form-fill"
  ELSE IF \E e \in Range(page.elements) : e.isInput THEN "submit-ready"
  ELSE "navigation"

detectPhase(page) ==
  LET pageLower == toLowerCase(page.title \o <<" ">> \o page.url)
      first20 == SubSeq(page.elements, 1, Min(20, Len(page.elements)))
      visibleText == joinWith([i \in 1..Len(first20) |-> toLowerCase(first20[i].text)], <<" ">>)
      els == Range(page.elements)
      emailLike(e, t) ==
        \/ includes(orEmpty(e.inputType), t)
        \/ includes(toLowerCase(orEmpty(e.placeholder)), t)
        \/ includes(toLowerCase(e.label), t)
      hasEmailInput ==
        \E e \in els : e.isInput /\ (emailLike(e, <<"e", "m", "a", "i", "l">>) \/ emailLike(e, <<"u", "s", "e", "r", "n", "a", "m", "e">>))
      hasPasswordInput ==
        \E e \in els : e.isInput /\
          (e.inputType = <<"p", "a", "s", "s", "w", "o", "r", "d">> \/ includes(toLowerCase(orEmpty(e.placeholder)), <<"p", "a", "s", "s", "w", "o", "r", "d">>))
      emptyInputs ==
        {e \in els : e.isInput /\ e.isFilled # "true" /\ e.inputType # <<"h", "i", "d", "d", "e", "n">>
                       /\ e.inputType # <<"s", "u", "b", "m", "i", "t">> /\ e.inputType # <<"b", "u", "t", "t", "o", "n">>}
      filledInputs == {e \in els : e.isInput /\ e.isFilled = "true"}
  IN  IF \E i \in 1..Len(SUCCESS_WORDS) : includes(pageLower, SUCCESS_WORDS[i]) THEN "success"
      ELSE IF \E i \in 1..Len(SUCCESS_WORDS) : includes(visibleText, SUCCESS_WORDS[i]) THEN "success"
      ELSE IF hasEmailInput /\ hasPasswordInput THEN "login"
      ELSE IF emptyInputs # {} THEN "form-fill"
      ELSE IF filledInputs # {} THEN "submit-ready"
      ELSE "navigation"

\* ───────────────────────── planner.ts: heuristic scorer ────────────────
\* score() from "Viewport bonus" to the end: the part that reads only the element,
\* the goal keywords and the phase
wordScore(el, keywords, phase) ==
  LET txt == toLowerCase(el.text)
      lbl == toLowerCase(el.label)
      ph == toLowerCase(orEmpty(el.placeholder))
      combined == txt \o <<" ">> \o lbl \o <<" ">> \o ph
      empty == el.isInput /\ el.isFilled # "true"
      filled == el.isInput /\ el.isFilled = "true"
      viewport == IF el.isInViewport THEN 5 ELSE 0
      login ==
        IF phase # "login" THEN 0
        ELSE (IF empty
                THEN IF \/ el.inputType = <<"e", "m", "a", "i", "l">> \/ includes(ph, <<"e", "m", "a", "i", "l">>) \/ includes(lbl, <<"e", "m", "a", "i", "l">>)
                        \/ includes(ph, <<"u", "s", "e", "r", "n", "a", "m", "e">>) \/ includes(lbl, <<"u", "s", "e", "r", "n", "a", "m", "e">>)
                       THEN 40
                     ELSE IF \/ el.inputType = <<"p", "a", "s", "s", "w", "o", "r", "d">> \/ includes(ph, <<"p", "a", "s", "s", "w", "o", "r", "d">>)
                             \/ includes(lbl, <<"p", "a", "s", "s", "w", "o", "r", "d">>)
                       THEN 35
                     ELSE 0
                ELSE 0)
             + 15 * count(LOGIN_WORDS, {w \in Range(LOGIN_WORDS) : includes(combined, w)})
             + (IF ~el.isInput /\ el.isFilled = "undefined"
                  THEN 10 * count(LOGIN_WORDS, {w \in Range(LOGIN_WORDS) : includes(combined, w)})
                  ELSE 0)
      formFill ==
        IF phase # "form-fill" THEN 0
        ELSE (IF empty
                THEN 25 + (IF el.isRequired = "true" THEN 10 ELSE 0)
                     + 15 * count(keywords, {k \in Range(keywords) : includes(lbl, k) \/ includes(ph, k)})
                ELSE 0)
             + (IF filled THEN -30 ELSE 0)
      submitReady ==
        IF phase # "submit-ready" THEN 0
        ELSE 25 * count(PROGRESS, {w \in Range(PROGRESS) : includes(combined, w)})
             + (IF filled THEN -30 ELSE 0)
      navigation ==
        IF phase # "navigation" THEN 0
        ELSE 20 * count(keywords, {k \in Range(keywords) : includes(txt, k)})
             + 15 * count(keywords, {k \in Range(keywords) : includes(lbl, k)})
             + 8 * count(CTA, {c \in Range(CTA) : includes(combined, c)})
      general ==
        12 * count(keywords, {k \in Range(keywords) : includes(txt, k)})
        + 10 * count(keywords, {k \in Range(keywords) : includes(lbl, k)})
        + 8 * count(keywords, {k \in Range(keywords) : includes(ph, k)})
        + 5 * count(CTA, {c \in Range(CTA) : includes(txt, c)})
        - 25 * count(PENALTY, {p \in Range(PENALTY) : includes(combined, p)})
      elementType ==
        (IF el.tag = <<"b", "u", "t", "t", "o", "n">> \/ el.role = <<"b", "u", "t", "t", "o", "n">> THEN 3 ELSE 0)
        + (IF el.tag = <<"a">> THEN 1 ELSE 0)
        + (IF empty THEN 2 ELSE 0)
      size == IF el.rect.width > 100 /\ el.rect.height > 30 THEN 2 ELSE 0
      position == IF el.rect.top < 600 THEN 1 ELSE 0
  IN  viewport + login + formFill + submitReady + navigation
      + general + elementType + size + position

\* wordScore, tokenize and detectPhase on the snapshots and goals of this model,
\* each computed once
Phases == {"login", "form-fill", "navigation", "submit-ready", "success"}
Snapshots == {PageData(p) : p \in PageIds} \cup PlannerSnapshots
Elements == UNION {Range(page.elements) : page \in Snapshots}
tokenizeOf == [goal \in PlannerGoals \cup {<<>>} |-> tokenize(goal)]
detectPhaseOf == [page \in Snapshots |-> detectPhase(page)]
wordScoreOf ==
  [el \in Elements, keywords \in {tokenizeOf[g] : g \in DOMAIN tokenizeOf}, phase \in Phases |->
     wordScore(el, keywords, phase)]

score(el, keywords, usedSelectors, usedTexts, phase, hasOpenDialog) ==
  LET usedText ==
        IF Len(el.text) > 3 /\ \E i \in 1..Len(usedTexts) :
             Len(usedTexts[i]) > 3 /\ includes(usedTexts[i], substring(el.text, 20))
          THEN -50 ELSE 0
      dialog == IF hasOpenDialog THEN 30 ELSE 0
  IN  IF el.selector \in usedSelectors THEN -1000
      ELSE IF hasOpenDialog /\ ~el.isInDialog THEN -2000
      ELSE usedText + dialog + wordScoreOf[el, keywords, phase]

\* an actionFor that types into every input
actionForTypingInputs(el) == IF el.isInput THEN "type" ELSE "click"

\* an actionFor that clicks whatever the element is
actionForClickOnly(el) == "click"

actionFor(el) ==
  IF el.isInput
    THEN LET t == toLowerCase(IF el.inputType = Undef THEN <<"t", "e", "x", "t">> ELSE el.inputType)
         IN  IF t \in {<<"c", "h", "e", "c", "k", "b", "o", "x">>, <<"r", "a", "d", "i", "o">>, <<"s", "u", "b", "m", "i", "t">>, <<"b", "u", "t", "t", "o", "n">>, <<"f", "i", "l", "e">>} THEN "click"
             ELSE IF el.tag = <<"s", "e", "l", "e", "c", "t">> THEN "select"
             ELSE "type"
  ELSE IF el.tag = <<"s", "e", "l", "e", "c", "t">> THEN "select"
  ELSE "click"

instructionFor(el, action, phase) ==
  LET name == orElse(el.label, orElse(substring(el.text, 50), orElse(el.placeholder, <<"t", "h", "i", "s", " ", "e", "l", "e", "m", "e", "n", "t">>)))
  IN  IF phase = "login" /\ (el.inputType = <<"e", "m", "a", "i", "l">>
                              \/ includes(toLowerCase(orEmpty(el.placeholder)), <<"e", "m", "a", "i", "l">>))
        THEN <<"E", "n", "t", "e", "r", " ", "y", "o", "u", "r", " ", "e", "m", "a", "i", "l", " ", "a", "d", "d", "r", "e", "s", "s">>
      ELSE IF phase = "login" /\ el.inputType = <<"p", "a", "s", "s", "w", "o", "r", "d">>
        THEN <<"E", "n", "t", "e", "r", " ", "y", "o", "u", "r", " ", "p", "a", "s", "s", "w", "o", "r", "d">>
      ELSE IF phase = "login" /\ action = "click"
        THEN <<"C", "l", "i", "c", "k", " ", "\"">> \o name \o <<"\"", " ", "t", "o", " ", "s", "i", "g", "n", " ", "i", "n">>
      ELSE IF action = "click" THEN <<"C", "l", "i", "c", "k", " ", "\"">> \o name \o <<"\"">>
      ELSE IF action = "type"
        THEN <<"E", "n", "t", "e", "r", " ", "y", "o", "u", "r", " ">> \o orElse(el.label, orElse(el.placeholder, <<"i", "n", "f", "o", "r", "m", "a", "t", "i", "o", "n">>))
      ELSE IF action = "select" THEN <<"S", "e", "l", "e", "c", "t", " ", "a", "n", " ", "o", "p", "t", "i", "o", "n", " ", "f", "r", "o", "m", " ", "\"">> \o name \o <<"\"">>
      ELSE <<"I", "n", "t", "e", "r", "a", "c", "t", " ", "w", "i", "t", "h", " ", "\"">> \o name \o <<"\"">>

RECURSIVE insertRanked(_, _)
\* x goes before the first entry with a strictly smaller score
insertRanked(sorted, x) ==
  IF sorted = <<>> THEN <<x>>
  ELSE IF Head(sorted).score < x.score THEN <<x>> \o sorted
  ELSE <<Head(sorted)>> \o insertRanked(Tail(sorted), x)

RECURSIVE sortRanked(_, _)
\* Array.prototype.sort((a, b) => b.score - a.score): stable, descending
sortRanked(xs, sorted) ==
  IF xs = <<>> THEN sorted ELSE sortRanked(Tail(xs), insertRanked(sorted, Head(xs)))

\* undefined for PageElement | undefined
noElement == [idx |-> -1]

\* a find that returns the last element pred accepts
findLast(elements, hits) ==
  IF \E i \in 1..Len(elements) : elements[i] \in hits
    THEN elements[CHOOSE i \in 1..Len(elements) :
                    elements[i] \in hits /\ \A j \in (i + 1)..Len(elements) : elements[j] \notin hits]
    ELSE noElement

\* elements.find(pred), hits being the elements pred accepts: the first of
\* them in snapshot order, or undefined
find(elements, hits) ==
  IF \E i \in 1..Len(elements) : elements[i] \in hits
    THEN elements[CHOOSE i \in 1..Len(elements) :
                    elements[i] \in hits /\ \A j \in 1..(i - 1) : elements[j] \notin hits]
    ELSE noElement

\* a planner that keeps no account of the selectors it has used
usedSelectorsForgotten(state) == {}

\* the selectors of the history and the one of the step on display
usedSelectorsWithCurrent(state) ==
  {state.history[i].selector : i \in 1..Len(state.history)}
    \cup (IF state.current = null THEN {} ELSE {state.current.selector})

usedSelectorsOf(state) == {state.history[i].selector : i \in 1..Len(state.history)}

usedTextsOf(state) ==
  SelectSeq([i \in 1..Len(state.history) |-> state.history[i].text], LAMBDA t : Len(t) > 3)

rankedOf(page, state) ==
  LET phase == detectPhaseOf[page]
      kw == tokenizeOf[state.goal]
      scored == [i \in 1..Len(page.elements) |->
                   [el |-> page.elements[i],
                    score |-> score(page.elements[i], kw, usedSelectorsOf(state),
                                    usedTextsOf(state), phase, page.hasOpenDialog)]]
  IN  sortRanked(SelectSeq(scored, LAMBDA x : x.score > -500), <<>>)

stepFor(el, action, state, phase) ==
  GuidanceStep(state.step, action, el.selector, substring(el.text, 60),
               instructionFor(el, action, phase))

heuristicPlan(page, state) ==
  LET phase == detectPhaseOf[page]
      usedSelectors == usedSelectorsOf(state)
      ranked == rankedOf(page, state)
      fallbackInput ==
        find(page.elements, {e \in Range(page.elements) :
                               e.isInput /\ e.isFilled # "true" /\ e.isInViewport
                               /\ e.selector \notin usedSelectors})
      fallbackButton ==
        find(page.elements, {e \in Range(page.elements) :
                               ~e.isInput /\ e.isInViewport
                               /\ e.selector \notin usedSelectors
                               /\ (e.tag = <<"b", "u", "t", "t", "o", "n">> \/ e.role = <<"b", "u", "t", "t", "o", "n">> \/ e.tag = <<"a">>)})
  IN  IF Len(page.elements) = 0 THEN null
      ELSE IF phase = "success" /\ state.step > 1 THEN null
      ELSE IF Len(ranked) > 0 /\ ranked[1].score > 0
        THEN stepFor(ranked[1].el, actionFor(ranked[1].el), state, phase)
      ELSE IF fallbackInput # noElement
        THEN stepFor(fallbackInput, actionFor(fallbackInput), state, phase)
      ELSE IF fallbackButton # noElement
        THEN stepFor(fallbackButton, "click", state, phase)
      ELSE null

isSuccessPage(page) == detectPhaseOf[page] = "success"

\* ───────────────────────── planner.ts: language-model planner ──────────
RECURSIVE wordRun(_, _)
\* the length of the match of \w* at s[j]
wordRun(s, j) == IF j > Len(s) \/ ~isWordChar(s[j]) THEN 0 ELSE 1 + wordRun(s, j + 1)

RECURSIVE digitRun(_, _)
\* the length of the match of \d* at s[j]
digitRun(s, j) == IF j > Len(s) \/ s[j] \notin Digits THEN 0 ELSE 1 + digitRun(s, j + 1)

RECURSIVE parseInt(_, _)
\* parseInt(digits, 10), acc is the value of the digits read so far
parseInt(digits, acc) ==
  IF digits = <<>> THEN acc
  ELSE parseInt(Tail(digits),
                10 * acc + (CHOOSE d \in 0..9 : <<"0", "1", "2", "3", "4", "5", "6", "7", "8", "9">>[d + 1] = Head(digits)))

noMatch == [ok |-> FALSE]

\* \)<\/Action> after the name raw[j..j+n-1], "(" and m digits: the match and its groups
actionMatchEnd(raw, j, n, m) ==
  IF /\ slice(raw, j + n + 1 + m, j + n + 1 + m) = <<")">>
     /\ toLowerCase(slice(raw, j + n + m + 2, j + n + m + 10)) = <<"<", "/", "a", "c", "t", "i", "o", "n", ">">>
    THEN [ok |-> TRUE,
          name |-> slice(raw, j, j + n - 1),
          id |-> IF m = 0 THEN Undef ELSE slice(raw, j + n + 1, j + n + m)]
    ELSE noMatch

\* (\w+)\((\d+)? at raw[j], the name being the n word characters found there
actionMatchName(raw, j, n) ==
  IF n = 0 \/ slice(raw, j + n, j + n) # <<"(">> THEN noMatch
  ELSE actionMatchEnd(raw, j, n, digitRun(raw, j + n + 1))

\* /<Action>(\w+)\((\d+)?\)<\/Action>/i tried at position i
actionMatchAt(raw, i) ==
  IF toLowerCase(slice(raw, i, i + 7)) # <<"<", "a", "c", "t", "i", "o", "n", ">">> THEN noMatch
  ELSE actionMatchName(raw, i + 8, wordRun(raw, i + 8))

RECURSIVE actionMatchFrom(_, _)
\* the leftmost match at position i or later
actionMatchFrom(raw, i) ==
  IF i > Len(raw) THEN noMatch
  ELSE IF actionMatchAt(raw, i).ok THEN actionMatchAt(raw, i)
  ELSE actionMatchFrom(raw, i + 1)

\* raw.match(/<Action>(\w+)\((\d+)?\)<\/Action>/i)
actionMatch(raw) == actionMatchFrom(raw, 1)

RECURSIVE trim(_)
trim(s) ==
  IF s = <<>> THEN s
  ELSE IF isSpace(Head(s)) THEN trim(Tail(s))
  ELSE IF isSpace(s[Len(s)]) THEN trim(slice(s, 1, Len(s) - 1))
  ELSE s

\* raw.match(/<Thought>(.*?)<\/Thought>/is), trimmed; '' without a match
thoughtOf(raw) ==
  LET lower == toLowerCase(raw)
      opens == {i \in 1..Len(raw) : slice(lower, i, i + 8) = <<"<", "t", "h", "o", "u", "g", "h", "t", ">">>}
      closesAfter(i) == {c \in (i + 9)..Len(raw) : slice(lower, c, c + 9) = <<"<", "/", "t", "h", "o", "u", "g", "h", "t", ">">>}
      starts == {i \in opens : closesAfter(i) # {}}
  IN  IF starts = {} THEN <<>>
      ELSE LET i == CHOOSE x \in starts : \A y \in starts : x <= y
               c == CHOOSE x \in closesAfter(i) : \A y \in closesAfter(i) : x <= y
           IN  trim(slice(raw, i + 9, c - 1))

\* The outcomes of fetch(url, ...) and of reading its body.
LlmResponses ==
  { [kind |-> "abort"],
    [kind |-> "http", ok |-> FALSE, text |-> <<>>],
    [kind |-> "http", ok |-> TRUE, text |-> <<"<", "T", "h", "o", "u", "g", "h", "t", ">", "P", "r", "e", "s", "s", " ", "i", "t", "<", "/", "T", "h", "o", "u", "g", "h", "t", ">", "<", "A", "c", "t", "i", "o", "n", ">", "c", "l", "i", "c", "k", "(", "1", ")">>],
    [kind |-> "http", ok |-> TRUE, text |-> <<"<", "A", "c", "t", "i", "o", "n", ">", "t", "y", "p", "e", "(", "0", ")">>],
    [kind |-> "http", ok |-> TRUE, text |-> <<"<", "A", "c", "t", "i", "o", "n", ">", "w", "a", "i", "t", "(", ")">>],
    [kind |-> "http", ok |-> TRUE, text |-> <<"<", "A", "c", "t", "i", "o", "n", ">", "c", "l", "i", "c", "k", "(", "7", ")">>],
    [kind |-> "http", ok |-> TRUE, text |-> <<"<", "A", "c", "t", "i", "o", "n", ">", "s", "e", "l", "e", "c", "t", "(", "0", ")">>],
    [kind |-> "http", ok |-> TRUE, text |-> <<"<", "A", "c", "t", "i", "o", "n", ">", "s", "c", "r", "o", "l", "l", "(", "1", ")">>],
    [kind |-> "http", ok |-> TRUE, text |-> <<"<", "A", "c", "t", "i", "o", "n", ">", "c", "l", "i", "c", "k", "(", ")">>],
    [kind |-> "http", ok |-> TRUE, text |-> <<"c", "l", "i", "c", "k", " ", "1">>] }

\* the outcomes the orchestrator is run against
LlmOutcomes ==
  {res \in LlmResponses :
     res.kind = "http" /\ res.ok => res.text = <<"<", "T", "h", "o", "u", "g", "h", "t", ">", "P", "r", "e", "s", "s", " ", "i", "t", "<", "/", "T", "h", "o", "u", "g", "h", "t", ">", "<", "A", "c", "t", "i", "o", "n", ">", "c", "l", "i", "c", "k", "(", "1", ")">>}

\* What llmPlan reads off the text of a completion: raw, the two matches, and
\* actionName, elementId, thought, action
parseResponse(text) ==
  LET raw == text \o <<"<", "/", "A", "c", "t", "i", "o", "n", ">">>
      match == actionMatch(raw)
      actionName == IF match.ok THEN toLowerCase(match.name) ELSE <<>>
  IN  [ok |-> match.ok,
       actionName |-> actionName,
       elementId |-> IF match.ok /\ match.id # Undef THEN parseInt(match.id, 0) ELSE -1,
       thought |-> thoughtOf(raw),
       action |-> IF actionName = <<"s", "e", "l", "e", "c", "t">> THEN "select"
                  ELSE IF actionName = <<"t", "y", "p", "e">> THEN "type"
                  ELSE "click"]

\* parseResponse on the completions of this model, each computed once
parseResponseOf ==
  [text \in {res.text : res \in {r \in LlmResponses : r.kind = "http"}} |-> parseResponse(text)]

\* llmPlan from the moment fetch settles with res; state is the object the
\* caller passed in
llmPlan(page, state, config, res) ==
  IF res.kind = "abort" THEN null
  ELSE IF ~res.ok THEN null
  ELSE
    LET parsed == parseResponseOf[res.text]
        el == find(page.elements, {e \in Range(page.elements) : e.idx = parsed.elementId})
    IN  IF ~parsed.ok THEN null
        ELSE IF parsed.actionName = <<"w", "a", "i", "t">> \/ parsed.elementId < 0 THEN null
        ELSE IF el = noElement THEN null
        ELSE GuidanceStep(state.step, parsed.action, el.selector, substring(el.text, 60),
                          orElse(parsed.thought,
                                 instructionFor(el, parsed.action, detectPhaseOf[page])))

\* ───────────────────────── content.ts: background state ────────────────
VARIABLES
  state,         \* let state: SessionState
  EMPTY_STATE,   \* const EMPTY_STATE: its history array is an object that can be pushed to
  sharesHistory, \* state.history and EMPTY_STATE.history are the same array object
  llmConfig,     \* let llmConfig: LLMConfig | null
  processing,    \* let processing
  pass,          \* the processTab call that holds the guard: its await point, its page
  retries,       \* the retry callbacks of setTimeout(..., 1000): timer pending or running
  calls,         \* processTab calls scheduled by timers and promise continuations
  storage,       \* chrome.storage.local: navai_state and navai_llm
  loading,       \* what loadState() of the init section will resolve with, or resolved
  notice,        \* what the step taken last sent: ERROR broadcasts by kind, COMPLETED,
                 \* and SHOW_STEP and HIDE_OVERLAY to the tab
  currentStep    \* let currentStep of the tab's content script: the step its overlay shows

vars == <<state, EMPTY_STATE, sharesHistory, llmConfig, processing, pass, retries,
          calls, storage, loading, notice, currentStep>>

emptyState ==
  [goal |-> <<>>, active |-> FALSE, completed |-> FALSE, step |-> 1,
   current |-> null, history |-> <<>>, mode |-> "heuristic"]

nullConfig == [provider |-> "null"]
unset == [unset |-> TRUE]

LLMConfig(apiKey) ==
  [provider |-> "openai", endpoint |-> <<"h", "t", "t", "p", "s", ":", "/", "/", "a", "p", "i", ".", "o", "p", "e", "n", "a", "i", ".", "c", "o", "m", "/", "v", "1", "/", "c", "h", "a", "t", "/", "c", "o", "m", "p", "l", "e", "t", "i", "o", "n", "s">>,
   apiKey |-> apiKey, model |-> <<"g", "p", "t", "-", "4", "o", "-", "m", "i", "n", "i">>]

ApiKeys == {<<"s", "k", "-", "1">>}

resolved == [resolved |-> TRUE]

\* a session an earlier run of the worker saved after it had completed at step 2
completedSession ==
  [goal |-> CHOOSE g \in Goals : TRUE, active |-> TRUE, completed |-> TRUE, step |-> 2,
   current |-> null, history |-> <<ActionRecord(1, "type", "#name", <<>>)>>,
   mode |-> "heuristic"]

\* What chrome.storage.local holds when the worker starts: nothing, or what an
\* earlier run of the worker (a stopped session, a completed one) and the panel
\* have saved.
StoredStates == {unset, emptyState, completedSession}
StoredConfigs == {unset} \cup {LLMConfig(k) : k \in ApiKeys}

idle == [pc |-> "idle", page |-> "none", obj |-> 0]

Init ==
  /\ state = emptyState
  /\ EMPTY_STATE = emptyState
  /\ sharesHistory = TRUE
  /\ llmConfig = nullConfig
  /\ processing = FALSE
  /\ pass = idle
  /\ retries = <<>>
  /\ calls = 0
  /\ storage \in [navai_state : StoredStates, navai_llm : StoredConfigs]
  /\ loading = storage
  /\ notice = {}
  /\ currentStep = null

\* chrome.storage.local.set({ navai_state: s }): the value is serialised when set is called
saveState(s) == [storage EXCEPT !.navai_state = s]

\* state.history.push(rec) on the state object s: the array may be EMPTY_STATE's
push(s, rec) == [s EXCEPT !.history = Append(@, rec)]

pushEmpty(rec) ==
  IF sharesHistory THEN [EMPTY_STATE EXCEPT !.history = Append(@, rec)] ELSE EMPTY_STATE

\* A suspended llmPlan call keeps the state object it was given: obj = 0 while that
\* object is still the value of `state`, and the object's step once `state` has
\* been assigned another object.
detach(p) == IF p.pc = "llm" /\ p.obj = 0 THEN [p EXCEPT !.obj = state.step] ELSE p

detachAll(ps) == [i \in 1..Len(ps) |-> detach(ps[i])]

stateOf(p) == IF p.obj = 0 THEN state ELSE [step |-> p.obj]

removeAt(s, i) == SubSeq(s, 1, i - 1) \o SubSeq(s, i + 1, Len(s))

\* loadState(): chrome.storage.local.get was called when the worker started, and
\* resolves with what the storage held then
loadState ==
  /\ loading # resolved
  /\ loading' = resolved
  /\ IF loading.navai_state # unset
       THEN /\ state' = loading.navai_state
            /\ sharesHistory' = FALSE
            /\ pass' = detach(pass)
            /\ retries' = detachAll(retries)
       ELSE UNCHANGED <<state, sharesHistory, pass, retries>>
  /\ llmConfig' = IF loading.navai_llm # unset THEN loading.navai_llm ELSE llmConfig
  /\ notice' = {}
  /\ UNCHANGED <<EMPTY_STATE, processing, calls, storage>>
  /\ UNCHANGED currentStep

\* sidepanel: saveBtn click
saveBtn(apiKey) ==
  /\ storage' = [storage EXCEPT !.navai_llm = LLMConfig(apiKey)]
  /\ notice' = {}
  /\ UNCHANGED <<state, EMPTY_STATE, sharesHistory, llmConfig, processing, pass,
                 retries, calls, loading>>
  /\ UNCHANGED currentStep

\* ───────────────────────── content.ts: helpers ─────────────────────────
noTab == [id |-> 0]

\* the tab chrome.tabs.get resolves with when the active tab shows an ordinary page
openTab == [id |-> 1, url |-> <<"h", "t", "t", "p", "s", ":", "/", "/", "d", "m", "v", ".", "e", "x", "a", "m", "p", "l", "e", "/", "a", "p", "p", "l", "y">>]

Tabs ==
  { noTab,
    [id |-> 1, url |-> Undef],
    [id |-> 1, url |-> <<"c", "h", "r", "o", "m", "e", ":", "/", "/", "n", "e", "w", "t", "a", "b">>],
    openTab }

\* the tab on a page of each other scheme that isRestrictedUrl lists
SchemeTabs ==
  { [id |-> 1, url |-> <<"c", "h", "r", "o", "m", "e", "-", "e", "x", "t", "e", "n", "s", "i", "o", "n", ":", "/", "/", "n", "a", "v", "a", "i", "/", "p", "a", "n", "e", "l">>],
    [id |-> 1, url |-> <<"e", "d", "g", "e", ":", "/", "/", "s", "e", "t", "t", "i", "n", "g", "s">>],
    [id |-> 1, url |-> <<"a", "b", "o", "u", "t", ":", "b", "l", "a", "n", "k">>],
    [id |-> 1, url |-> <<"c", "h", "r", "o", "m", "e", "-", "s", "e", "a", "r", "c", "h", ":", "/", "/", "n", "t", "p">>],
    [id |-> 1, url |-> <<"d", "e", "v", "t", "o", "o", "l", "s", ":", "/", "/", "d", "e", "v", "t", "o", "o", "l", "s">>] }

\* a check that knows chrome:// pages only
isRestrictedUrlChromeOnly(url) ==
  IF url = Undef \/ url = <<>> THEN TRUE
  ELSE startsWith(url, <<"c", "h", "r", "o", "m", "e", ":", "/", "/">>)

isRestrictedUrl(url) ==
  IF url = Undef \/ url = <<>> THEN TRUE
  ELSE \/ startsWith(url, <<"c", "h", "r", "o", "m", "e", ":", "/", "/">>)
       \/ startsWith(url, <<"c", "h", "r", "o", "m", "e", "-", "e", "x", "t", "e", "n", "s", "i", "o", "n", ":", "/", "/">>)
       \/ startsWith(url, <<"e", "d", "g", "e", ":", "/", "/">>)
       \/ startsWith(url, <<"a", "b", "o", "u", "t", ":">>)
       \/ startsWith(url, <<"c", "h", "r", "o", "m", "e", "-", "s", "e", "a", "r", "c", "h", ":", "/", "/">>)
       \/ startsWith(url, <<"d", "e", "v", "t", "o", "o", "l", "s", ":", "/", "/">>)

hasApiKey(config) == config # nullConfig /\ config.apiKey # <<>>

\* a plan(page) that asks the language model whenever a key is there
plansWithLlmInAnyMode == hasApiKey(llmConfig)

\* plan(page) awaits llmPlan
plansWithLlm == state.mode = "llm" /\ hasApiKey(llmConfig)

isStuck(step) ==
  LET n == Len(state.history)
      recent == SubSeq(state.history, IF n > 3 THEN n - 2 ELSE 1, n)
      sameSelector == \A i \in 1..Len(recent) : recent[i].selector = step.selector
      sameText == Len(step.textHint) > 3 /\ \A i \in 1..Len(recent) : recent[i].text = step.textHint
  IN  IF Len(recent) < 3 THEN FALSE ELSE sameSelector \/ sameText

\* ───────────────────────── content.ts: processTab ──────────────────────
\* A scheduled call of processTab(tabId) starts: the two guards, then processing = true.
processTab ==
  /\ calls > 0
  /\ calls' = calls - 1
  /\ IF ~state.active \/ state.completed THEN UNCHANGED <<processing, pass>>
     ELSE IF processing THEN UNCHANGED <<processing, pass>>
     ELSE processing' = TRUE /\ pass' = [pc |-> "snapshot", page |-> "none", obj |-> 0]
  /\ notice' = {}
  /\ UNCHANGED <<state, EMPTY_STATE, sharesHistory, llmConfig, retries, storage, loading>>
  /\ UNCHANGED currentStep

\* a pass that ends without releasing the guard
finallyGuardKept == pass' = idle /\ UNCHANGED processing

\* finally { processing = false }
finally == processing' = FALSE /\ pass' = idle

\* a catch that arms the timer twice
catchTwice ==
  retries' = retries \o <<[pc |-> "timer", page |-> "none", obj |-> 0],
                          [pc |-> "timer", page |-> "none", obj |-> 0]>>

\* catch (e) { setTimeout(async () => { ... }, 1000) }
catch == retries' = Append(retries, [pc |-> "timer", page |-> "none", obj |-> 0])

\* a commit that also counts the step it commits
plannedCounting(found) ==
  LET stuck == found # null /\ isStuck(found)
      step == IF stuck THEN null ELSE found
      next == [state EXCEPT !.current = step, !.step = IF step # null THEN @ + 1 ELSE @]
  IN  /\ notice' = IF stuck THEN {"ERROR:stuck"} ELSE {}
      /\ IF step # null \/ ~state.completed
           THEN /\ state' = next
                /\ storage' = saveState(next)
                /\ pass' = [pc |-> IF step # null THEN "show" ELSE "nostep",
                            page |-> "none", obj |-> 0]
                /\ UNCHANGED processing
           ELSE /\ finally
                /\ UNCHANGED <<state, storage>>

\* a commit that leaves current as it is when there is no step
plannedKeepingCurrent(found) ==
  LET stuck == found # null /\ isStuck(found)
      step == IF stuck THEN null ELSE found
      next == IF step # null THEN [state EXCEPT !.current = step] ELSE state
  IN  /\ notice' = IF stuck THEN {"ERROR:stuck"} ELSE {}
      /\ IF step # null \/ ~state.completed
           THEN /\ state' = next
                /\ storage' = storage
                /\ pass' = [pc |-> IF step # null THEN "show" ELSE "nostep",
                            page |-> "none", obj |-> 0]
                /\ UNCHANGED processing
           ELSE /\ finally
                /\ UNCHANGED <<state, storage>>

\* processTab from "let step = await plan(page)" resolving with found, up to the
\* await that follows: the stuck check, then state.current and saveState()
planned(found) ==
  LET stuck == found # null /\ isStuck(found)
      step == IF stuck THEN null ELSE found
      next == [state EXCEPT !.current = step]
  IN  /\ notice' = IF stuck THEN {"ERROR:stuck"} ELSE {}
      /\ IF step # null \/ ~state.completed
           THEN /\ state' = next
                /\ storage' = saveState(next)
                /\ pass' = [pc |-> IF step # null THEN "show" ELSE "nostep",
                            page |-> "none", obj |-> 0]
                /\ UNCHANGED processing
           ELSE /\ finally
                /\ UNCHANGED <<state, storage>>

\* a completion check that honours a success verdict at any step
detectsCompletionAtAnyStep(page) == isSuccessPage(page)

\* if (state.step > 1 && isSuccessPage(page))
detectsCompletion(page) == state.step > 1 /\ isSuccessPage(page)

\* a completion that also closes the session
latchedInactive(s) == [s EXCEPT !.completed = TRUE, !.current = null, !.active = FALSE]

\* state.completed = true; state.current = null
latched(s) == [s EXCEPT !.completed = TRUE, !.current = null]

\* The two awaits of the try block settle: chrome.tabs.get(tabId) with tab and,
\* unless the tab is missing or restricted, sendMessage(tabId, EXTRACT), which
\* throws, or resolves with something that is no PAGE_DATA, or with a snapshot
snapshot(tab, resp) ==
  /\ pass.pc = "snapshot"
  /\ IF tab = noTab \/ isRestrictedUrl(tab.url)
       THEN /\ finally
            /\ notice' = {"ERROR:restricted"}
            /\ UNCHANGED <<state, storage, retries>>
     ELSE IF resp = "throw"
       THEN /\ catch
            /\ finally
            /\ notice' = {}
            /\ UNCHANGED <<state, storage>>
     ELSE IF resp = "nodata"
       THEN /\ finally
            /\ notice' = {"ERROR:nodata"}
            /\ UNCHANGED <<state, storage, retries>>
     ELSE IF detectsCompletion(PageData(resp))
       THEN LET done == latched(state)
            IN  /\ state' = done
                /\ storage' = saveState(done)
                /\ pass' = [pc |-> "completed", page |-> "none", obj |-> 0]
                /\ notice' = {}
                /\ UNCHANGED <<processing, retries>>
     ELSE IF plansWithLlm
       THEN /\ pass' = [pc |-> "llm", page |-> resp, obj |-> 0]
            /\ notice' = {}
            /\ UNCHANGED <<state, storage, processing, retries>>
     ELSE /\ planned(heuristicPlan(PageData(resp), state))
          /\ UNCHANGED retries
  /\ UNCHANGED <<EMPTY_STATE, sharesHistory, llmConfig, calls, loading>>
  /\ UNCHANGED currentStep

\* a plan() that gives up when llmPlan yields no step
planLlmOnly(p, res) == llmPlan(PageData(p.page), stateOf(p), llmConfig, res)

\* plan(page): fetch settles with res inside llmPlan; a null result falls back
\* to heuristicPlan(page, state) on the state of that moment
plan(p, res) ==
  LET step == llmPlan(PageData(p.page), stateOf(p), llmConfig, res)
  IN  IF step # null THEN step ELSE heuristicPlan(PageData(p.page), state)

llmSettles(res) ==
  /\ pass.pc = "llm"
  /\ planned(plan(pass, res))
  /\ UNCHANGED <<EMPTY_STATE, sharesHistory, llmConfig, retries, calls, loading>>
  /\ UNCHANGED currentStep

\* after the success branch's await saveState(): STATE, COMPLETED, HIDE_OVERLAY, return
completedSent ==
  /\ pass.pc = "completed"
  /\ notice' = {"COMPLETED", "HIDE_OVERLAY"}
  /\ finally
  /\ UNCHANGED <<state, EMPTY_STATE, sharesHistory, llmConfig, retries, calls, storage, loading>>
  /\ UNCHANGED currentStep

\* after await saveState(): STATE, then await sendMessage(SHOW_STEP), which
\* resolves (delivered) or rejects into the catch block
showStep(delivered) ==
  /\ pass.pc = "show"
  /\ notice' = {"SHOW_STEP"}
  /\ IF delivered THEN UNCHANGED retries
     ELSE catch
  /\ finally
  /\ UNCHANGED <<state, EMPTY_STATE, sharesHistory, llmConfig, calls, storage, loading>>
  /\ UNCHANGED currentStep

\* after await saveState() with no step: STATE and the "No clear next step" error
noStep ==
  /\ pass.pc = "nostep"
  /\ notice' = {"ERROR:nostep"}
  /\ finally
  /\ UNCHANGED <<state, EMPTY_STATE, sharesHistory, llmConfig, retries, calls, storage, loading>>
  /\ UNCHANGED currentStep

\* ───────────────────────── content.ts: the retry callback ──────────────
\* the retry from "const step = await plan(resp.data)" resolving with step
retryPlanned(i, step) ==
  LET next == [state EXCEPT !.current = step]
  IN  IF step # null
        THEN /\ state' = next
             /\ storage' = saveState(next)
             /\ retries' = [retries EXCEPT ![i] = [pc |-> "show", page |-> "none", obj |-> 0]]
        ELSE /\ retries' = removeAt(retries, i)
             /\ UNCHANGED <<state, storage>>

\* The 1000 ms timer fires and the retry's await sendMessage(tabId, EXTRACT) settles
retryExtract(i, resp) ==
  /\ retries[i].pc = "timer"
  /\ IF resp = "throw"
       THEN /\ notice' = {"ERROR:connect"}
            /\ retries' = removeAt(retries, i)
            /\ UNCHANGED <<state, storage>>
     ELSE IF resp = "nodata"
       THEN /\ notice' = {}
            /\ retries' = removeAt(retries, i)
            /\ UNCHANGED <<state, storage>>
     ELSE IF plansWithLlm
       THEN /\ notice' = {}
            /\ retries' = [retries EXCEPT ![i] = [pc |-> "llm", page |-> resp, obj |-> 0]]
            /\ UNCHANGED <<state, storage>>
     ELSE /\ notice' = {}
          /\ retryPlanned(i, heuristicPlan(PageData(resp), state))
  /\ UNCHANGED <<EMPTY_STATE, sharesHistory, llmConfig, processing, pass, calls, loading>>
  /\ UNCHANGED currentStep

retryLlmSettles(i, res) ==
  /\ retries[i].pc = "llm"
  /\ notice' = {}
  /\ retryPlanned(i, plan(retries[i], res))
  /\ UNCHANGED <<EMPTY_STATE, sharesHistory, llmConfig, processing, pass, calls, loading>>
  /\ UNCHANGED currentStep

\* the retry after await saveState(): STATE, then SHOW_STEP, whose rejection is
\* caught by the retry's own catch
retryShowStep(i, delivered) ==
  /\ retries[i].pc = "show"
  /\ notice' = IF delivered THEN {"SHOW_STEP"} ELSE {"SHOW_STEP", "ERROR:connect"}
  /\ retries' = removeAt(retries, i)
  /\ UNCHANGED <<state, EMPTY_STATE, sharesHistory, llmConfig, processing, pass, calls,
                 storage, loading>>
  /\ UNCHANGED currentStep

\* ───────────────────────── content.ts: onMessage ───────────────────────
START(goal, mode) ==
  LET next == [EMPTY_STATE EXCEPT !.goal = goal, !.active = TRUE, !.completed = FALSE,
                                  !.mode = mode]
  IN  /\ state' = next
      /\ sharesHistory' = TRUE
      /\ pass' = detach(pass)
      /\ retries' = detachAll(retries)
      /\ storage' = saveState(next)
      /\ calls' = calls + 1
      /\ notice' = {}
      /\ UNCHANGED <<EMPTY_STATE, llmConfig, processing, loading>>
      /\ UNCHANGED currentStep

STOP ==
  /\ state' = EMPTY_STATE
  /\ sharesHistory' = TRUE
  /\ pass' = detach(pass)
  /\ retries' = detachAll(retries)
  /\ storage' = saveState(EMPTY_STATE)
  /\ notice' = {"HIDE_OVERLAY"}
  /\ UNCHANGED <<EMPTY_STATE, llmConfig, processing, calls, loading>>
  /\ UNCHANGED currentStep

\* a bookkeeping that counts the step before it records it
advanceCountingFirst(action) ==
  LET rec == ActionRecord(state.step + 1, action, state.current.selector,
                          state.current.textHint)
      pushed == IF state.current # null THEN push(state, rec) ELSE state
      next == [pushed EXCEPT !.step = @ + 1, !.current = null]
  IN  /\ state' = next
      /\ EMPTY_STATE' = IF state.current # null THEN pushEmpty(rec) ELSE EMPTY_STATE
      /\ storage' = saveState(next)

\* the bookkeeping SKIP and ACTION_DONE share: push, step++, current = null, saveState()
advance(action) ==
  LET rec == ActionRecord(state.step, action, state.current.selector, state.current.textHint)
      pushed == IF state.current # null THEN push(state, rec) ELSE state
      next == [pushed EXCEPT !.step = @ + 1, !.current = null]
  IN  /\ state' = next
      /\ EMPTY_STATE' = IF state.current # null THEN pushEmpty(rec) ELSE EMPTY_STATE
      /\ storage' = saveState(next)

SKIP ==
  /\ advance(state.current.action)
  /\ calls' = calls + 1
  /\ notice' = {}
  /\ UNCHANGED <<sharesHistory, llmConfig, processing, pass, retries, loading>>
  /\ UNCHANGED currentStep

RESCAN ==
  /\ calls' = calls + 1
  /\ notice' = {}
  /\ UNCHANGED <<state, EMPTY_STATE, sharesHistory, llmConfig, processing, pass, retries,
                 storage, loading>>
  /\ UNCHANGED currentStep

ACTION_DONE(action) ==
  /\ IF ~state.active
       THEN /\ notice' = {}
            /\ UNCHANGED <<state, EMPTY_STATE, storage, calls>>
       ELSE /\ advance(action)
            /\ calls' = calls + 1
            /\ notice' = {}
  /\ UNCHANGED <<sharesHistory, llmConfig, processing, pass, retries, loading>>
  /\ UNCHANGED currentStep

NAV_CHANGE ==
  /\ notice' = {}
  /\ IF ~state.active THEN UNCHANGED calls
     ELSE calls' = calls + 1
  /\ UNCHANGED <<state, EMPTY_STATE, sharesHistory, llmConfig, processing, pass, retries,
                 storage, loading>>
  /\ UNCHANGED currentStep

\* chrome.webNavigation.onCompleted of the main frame
onCompleted ==
  /\ notice' = {}
  /\ IF ~state.active THEN UNCHANGED calls
     ELSE calls' = calls + 1
  /\ UNCHANGED <<state, EMPTY_STATE, sharesHistory, llmConfig, processing, pass, retries,
                 storage, loading>>
  /\ UNCHANGED currentStep

\* ───────────────────────── the specification ───────────────────────────
ExtractResponses == {"throw", "nodata", "form", "success"}
DoneActions == {"click"}

\* The bounds: a handler that would schedule one more call, set one more retry
\* timer, or count or record one more step than the bound is not taken.
mayCall == calls < MaxTimers
mayRetry == Len(retries) < MaxRetries
mayAdvance ==
  /\ state.step < MaxStep
  /\ state.current # null => Len(state.history) < MaxHist

Next ==
  \/ loadState
  \/ \E k \in ApiKeys : saveBtn(k)
  \/ \E g \in Goals, m \in PlannerMode : mayCall /\ START(g, m)
  \/ STOP
  \/ mayCall /\ mayAdvance /\ SKIP
  \/ mayCall /\ RESCAN
  \/ \E a \in DoneActions : (state.active => mayCall /\ mayAdvance) /\ ACTION_DONE(a)
  \/ (state.active => mayCall) /\ NAV_CHANGE
  \/ (state.active => mayCall) /\ onCompleted
  \/ processTab
  \/ \E t \in Tabs, r \in ExtractResponses : (r = "throw" => mayRetry) /\ snapshot(t, r)
  \/ \E res \in LlmOutcomes : llmSettles(res)
  \/ completedSent
  \/ \E d \in BOOLEAN : (~d => mayRetry) /\ showStep(d)
  \/ noStep
  \/ \E i \in 1..Len(retries), r \in ExtractResponses : retryExtract(i, r)
  \/ \E i \in 1..Len(retries), res \in LlmOutcomes : retryLlmSettles(i, res)
  \/ \E i \in 1..Len(retries), d \in BOOLEAN : retryShowStep(i, d)

Spec == Init /\ [][Next]_vars

\* ───────────────────────── one session on a reachable page ─────────────
\* The planning paths of a single session, followed further than Spec follows
\* them: the panel starts a session once the previous one is over, the page
\* confirms each step, the tab is an ordinary page whose snapshot is the form or
\* the page with the compose panel open, and the language model answers.
MaxSessionStep == 4
MaxSessionHist == 3

SessionResponses == {"throw", "form", "dialog"}

maySessionAdvance ==
  /\ state.step < MaxSessionStep
  /\ state.current # null => Len(state.history) < MaxSessionHist

NextSession ==
  \/ loadState
  \/ \E g \in Goals, m \in PlannerMode : ~state.active /\ mayCall /\ START(g, m)
  \/ \E a \in DoneActions : state.active /\ mayCall /\ maySessionAdvance /\ ACTION_DONE(a)
  \/ processTab
  \/ \E r \in SessionResponses : (r = "throw" => mayRetry) /\ snapshot(openTab, r)
  \/ \E res \in LlmOutcomes : llmSettles(res)
  \/ \E d \in BOOLEAN : (~d => mayRetry) /\ showStep(d)
  \/ noStep
  \/ \E i \in 1..Len(retries), r \in SessionResponses : retryExtract(i, r)
  \/ \E i \in 1..Len(retries), res \in LlmOutcomes : retryLlmSettles(i, res)
  \/ \E i \in 1..Len(retries), d \in BOOLEAN : retryShowStep(i, d)

SpecSession == Init /\ [][NextSession]_vars

\* ───────────────────────── one session of a loaded worker ──────────────
\* The side panel offers its goal form only while the session is inactive, and
\* here it is opened once the worker has rehydrated: the session is started
\* once, the page confirms steps, and the user asks for rescans.
PanelResponses == {"throw", "nodata", "form", "success"}

NextPanel ==
  \/ loadState
  \/ \E g \in Goals, m \in PlannerMode :
       loading = resolved /\ ~state.active /\ mayCall /\ START(g, m)
  \/ \E a \in DoneActions : state.active /\ mayCall /\ maySessionAdvance /\ ACTION_DONE(a)
  \/ mayCall /\ RESCAN
  \/ processTab
  \/ \E r \in PanelResponses : (r = "throw" => mayRetry) /\ snapshot(openTab, r)
  \/ \E res \in LlmOutcomes : llmSettles(res)
  \/ completedSent
  \/ \E d \in BOOLEAN : (~d => mayRetry) /\ showStep(d)
  \/ noStep
  \/ \E i \in 1..Len(retries), r \in PanelResponses : retryExtract(i, r)
  \/ \E i \in 1..Len(retries), res \in LlmOutcomes : retryLlmSettles(i, res)
  \/ \E i \in 1..Len(retries), d \in BOOLEAN : retryShowStep(i, d)

SpecPanel == Init /\ [][NextPanel]_vars

\* ───────────────────────── starts, with fair scheduling ────────────────
\* The panel starts sessions in heuristic mode, one after or over the other, on
\* a tab that shows an ordinary page. What has been scheduled runs: the storage
\* read resolves, a processTab call that a handler has scheduled is made, and
\* each await of a pass or of a retry settles.
StartResponses == {"throw", "nodata", "form"}

\* sendMessage(tabId, EXTRACT) of the pass settles (the response that is settled
\* without planning is listed first)
extractSettles ==
  \/ snapshot(openTab, "nodata")
  \/ \E r \in StartResponses : (r = "throw" => mayRetry) /\ snapshot(openTab, r)

\* the timer of a retry fires and its sendMessage(tabId, EXTRACT) settles
retrySettles ==
  \E i \in 1..Len(retries) :
    \/ retryExtract(i, "nodata")
    \/ \E r \in StartResponses : retryExtract(i, r)

NextStart ==
  \/ loadState
  \/ \E g \in Goals : mayCall /\ START(g, "heuristic")
  \/ processTab
  \/ extractSettles
  \/ \E d \in BOOLEAN : (~d => mayRetry) /\ showStep(d)
  \/ retrySettles
  \/ \E i \in 1..Len(retries), d \in BOOLEAN : retryShowStep(i, d)

SpecStart ==
  /\ Init /\ [][NextStart]_vars
  /\ WF_vars(loadState)
  /\ WF_vars(processTab)
  /\ WF_vars(extractSettles)
  /\ WF_vars(\E d \in BOOLEAN : (~d => mayRetry) /\ showStep(d))
  /\ WF_vars(retrySettles)
  /\ WF_vars(\E i \in 1..Len(retries), d \in BOOLEAN : retryShowStep(i, d))

\* ───────────────────────── the planners on their inputs ────────────────
MaxPlannerStep == 2

\* the records ACTION_DONE pushes for a confirmed step on a pool element
PlannerHistories ==
  {<<>>} \cup {<<ActionRecord(1, actionFor(e), e.selector, substring(e.text, 60))>> : e \in Range(PlannerPool)}

\* A started session with a pass that holds a snapshot and is about to plan:
\* processTab between "const page = res.page" and "await plan(page)".
InitPlanner ==
  /\ \E g \in PlannerGoals, m \in PlannerMode, n \in 1..MaxPlannerStep, h \in PlannerHistories :
       /\ Len(h) < n
       /\ state = [emptyState EXCEPT !.goal = g, !.active = TRUE, !.mode = m, !.step = n, !.history = h]
       /\ EMPTY_STATE = [emptyState EXCEPT !.history = h]
  /\ sharesHistory = TRUE
  /\ llmConfig \in {LLMConfig(k) : k \in ApiKeys}
  /\ processing = TRUE
  /\ pass \in {[pc |-> "planning", page |-> page, obj |-> 0, step |-> null] : page \in Snapshots}
  /\ retries = <<>>
  /\ calls = 0
  /\ storage = [navai_state |-> state, navai_llm |-> llmConfig]
  /\ loading = resolved
  /\ notice = {}
  /\ currentStep = null

\* const step = heuristicPlan(page, state)
callHeuristicPlan ==
  /\ pass.pc = "planning"
  /\ pass' = [pass EXCEPT !.pc = "heuristicPlan", !.step = heuristicPlan(pass.page, state)]
  /\ UNCHANGED <<state, EMPTY_STATE, sharesHistory, llmConfig, processing, retries,
                 calls, storage, loading, notice>>
  /\ UNCHANGED currentStep

\* const step = await llmPlan(page, state, llmConfig), fetch settling with res
callLlmPlan(res) ==
  /\ pass.pc = "planning"
  /\ plansWithLlm
  /\ pass' = [pass EXCEPT !.pc = "llmPlan", !.step = llmPlan(pass.page, state, llmConfig, res)]
  /\ UNCHANGED <<state, EMPTY_STATE, sharesHistory, llmConfig, processing, retries,
                 calls, storage, loading, notice>>
  /\ UNCHANGED currentStep

NextPlanner ==
  \/ callHeuristicPlan
  \/ \E res \in LlmResponses : callLlmPlan(res)

SpecPlanner == InitPlanner /\ [][NextPlanner]_vars

\* ───────────────────────── properties ──────────────────────────────────
startsSession == \E g \in Goals, m \in PlannerMode : START(g, m)

\* completed goes from false to true in this step
latches == ~state.completed /\ state'.completed

\* C1: after any sequence of triggers, handling start(goal, mode) leaves the
\* session with history empty, step = 1, current = null, completed = false,
\* active = true and the given goal and mode.
C1_StartResets ==
  [][\A g \in Goals, m \in PlannerMode :
       START(g, m) => state' = [emptyState EXCEPT !.goal = g, !.active = TRUE, !.mode = m]]_vars

\* C2: after any sequence of triggers, handling stop leaves the session equal to
\* the empty state (goal empty, inactive, not completed, step = 1, current = null,
\* history empty) and HIDE_OVERLAY is sent to the actuator.
C2_StopResets ==
  [][STOP => (state' = emptyState /\ "HIDE_OVERLAY" \in notice')]_vars

\* the plan passes that are executing: the processTab call that holds the guard,
\* and every retry callback whose timer has fired and that has not returned
executing ==
  (IF pass.pc = "idle" THEN 0 ELSE 1)
  + Cardinality({i \in 1..Len(retries) : retries[i].pc # "timer"})

\* C3: at every moment at most one plan pass is executing, the delayed retry of
\* a failed pass counting as a plan pass.
C3_OnePassAtATime == executing <= 1

\* C4: in every reachable state active = false implies current = null: no pass
\* or retry that began before stop commits a step after it.
C4_InactiveHasNoCurrent == ~state.active => state.current = null

\* C5: whenever current is not null, its selector differs from the selector of
\* every record in history.
C5_NoRepeat ==
  state.current # null =>
    \A i \in 1..Len(state.history) : state.history[i].selector # state.current.selector

\* selector names an element of the snapshot that is inside the open panel
inDialog(page, selector) ==
  \E i \in 1..Len(page.elements) :
    page.elements[i].selector = selector /\ page.elements[i].isInDialog

\* a pass or a retry hands the snapshot p to plan(), or takes plan()'s result for it
plansOn(p) ==
  \/ \E t \in Tabs : snapshot(t, p)
  \/ pass.page = p /\ \E res \in LlmOutcomes : llmSettles(res)
  \/ \E i \in 1..Len(retries) : retryExtract(i, p)
  \/ \E i \in 1..Len(retries) :
       retries[i].page = p /\ \E res \in LlmOutcomes : retryLlmSettles(i, res)

C7_StuckNeverCommitted == state.current # null => ~isStuck(state.current)

\* C8: once completed = true it stays true through every trigger, pass and
\* retry; only stop or start sets it back to false.
C8_CompletedLatch ==
  [][(state.completed /\ ~state'.completed) => (STOP \/ startsSession)]_vars

\* the success branch of a plan pass: the snapshot arrives, it is in success
\* phase and step > 1
successPass ==
  /\ pass.pc = "snapshot"
  /\ state.step > 1
  /\ \E t \in Tabs, p \in PageIds : isSuccessPage(PageData(p)) /\ snapshot(t, p)

\* a pass at step = 1 receives a snapshot in success phase
firstPassOnSuccess ==
  /\ state.step = 1
  /\ \E t \in Tabs \ {noTab} : ~isRestrictedUrl(t.url) /\ snapshot(t, "success")

\* C9: completed becomes true only in the success branch of a plan pass, on a
\* snapshot in success phase while step > 1 (loadState, which installs a stored
\* session as it was saved, aside); a pass at step = 1 on a snapshot in success
\* phase does not latch completed and goes on to the planner.
C9_LatchOnlyOnSuccessAfterStepOne ==
  [][/\ (latches => successPass \/ loadState)
     /\ (firstPassOnSuccess =>
           ~state'.completed /\ pass'.pc \in {"llm", "show", "nostep"})]_vars

\* a pass has just latched completed at a step above 1, in a session whose
\* first pass planned the success page's link instead of latching
C9_Witness ==
  /\ state.completed /\ state.step > 1 /\ pass.pc = "completed"
  /\ \E i \in 1..Len(state.history) : state.history[i].selector = "#home"

confirmsAction == \E a \in DoneActions : ACTION_DONE(a)

\* C11: once completed is latched, skip, action-confirmed, rescan and navigation
\* triggers, and every pending timer, pass or retry, leave step, history and
\* current as they are (current stays null) until stop or start is handled.
\* (loadState, which replaces the whole session by the stored one, is left aside.)
C11_CompletedIsTerminal ==
  [][(state.completed /\ ~(STOP \/ startsSession \/ loadState))
       => /\ state'.step = state.step
          /\ state'.history = state.history
          /\ state'.current = state.current]_vars

\* C12: while active = false, handling skip, rescan, action-confirmed or a
\* navigation leaves every field of the session and the persisted record
\* unchanged, and the processTab call it may schedule starts no plan pass.
C12_InactiveTriggersAreNoOps ==
  [][(~state.active
        /\ (SKIP \/ RESCAN \/ confirmsAction \/ NAV_CHANGE \/ onCompleted \/ processTab))
       => /\ state' = state
          /\ storage'.navai_state = storage.navai_state
          /\ pass' = pass /\ processing' = processing /\ retries' = retries]_vars

\* C13: within a session, between one start and the next start or stop, step
\* changes only when action-confirmed or skip is handled, and then by exactly +1;
\* it never decreases.
C13_StepMonotonic ==
  [][(state.active /\ state'.step # state.step /\ ~(STOP \/ startsSession))
       => ((SKIP \/ confirmsAction) /\ state'.step = state.step + 1)]_vars

\* the step fields of the records of h are strictly increasing in list order
stepsIncrease(h) == \A i \in 1..(Len(h) - 1) : h[i].step < h[i + 1].step

\* the records of h are the first records of g, unchanged
isPrefixOf(h, g) == Len(h) <= Len(g) /\ SubSeq(g, 1, Len(h)) = h

\* C14: the step fields of the history records are strictly increasing in list
\* order in every state, and every transition other than start or stop keeps
\* the existing records as a prefix of the new history. (loadState, which
\* replaces the whole session by the stored one, is left aside.)
C14_HistoryAppendOnly ==
  [][/\ stepsIncrease(state'.history)
     /\ ~(STOP \/ startsSession \/ loadState) => isPrefixOf(state.history, state'.history)]_vars

\* a step of a plan pass or of its retry: the processTab call, and each await of
\* the pass or of the retry callback settling
passStep ==
  \/ processTab
  \/ \E t \in Tabs, r \in ExtractResponses \cup PageIds : snapshot(t, r)
  \/ \E res \in LlmOutcomes : llmSettles(res)
  \/ completedSent
  \/ \E d \in BOOLEAN : showStep(d)
  \/ noStep
  \/ \E i \in 1..Len(retries), r \in ExtractResponses \cup PageIds : retryExtract(i, r)
  \/ \E i \in 1..Len(retries), res \in LlmOutcomes : retryLlmSettles(i, res)
  \/ \E i \in 1..Len(retries), d \in BOOLEAN : retryShowStep(i, d)

\* C15: a plan pass that rescan triggers, like every plan pass, changes at most
\* current and completed of the session: goal, mode, active, step and history
\* are after each of its steps what they were before, whatever its outcome.
C15_PassKeepsStepAndHistory ==
  [][passStep => /\ state'.goal = state.goal
                 /\ state'.mode = state.mode
                 /\ state'.active = state.active
                 /\ state'.step = state.step
                 /\ state'.history = state.history]_vars

\* The one start of the session has been handled and no step confirmed; a pass
\* has failed and left its retry timer, and a later pass, which only a rescan
\* can have asked for, has committed a step: step and history are as start left
\* them.
C15_Witness ==
  /\ Len(retries) = 1 /\ retries[1].pc = "timer"
  /\ pass.pc = "show" /\ state.current # null
  /\ state.active /\ state.goal \in Goals /\ state.step = 1 /\ state.history = <<>>

\* C16: handling action-confirmed(a) while active with current not null appends
\* exactly the record {step before the increment, a, current.selector,
\* current.textHint} to history, increases step by 1, clears current and saves
\* the session; with current = null it appends no record; while not active it
\* changes nothing.
C16_ActionDoneBookkeeping ==
  [][\A a \in DoneActions :
       ACTION_DONE(a) =>
         IF ~state.active
           THEN state' = state /\ storage' = storage
           ELSE /\ state'.history =
                     IF state.current # null
                       THEN Append(state.history,
                                   [step |-> state.step, action |-> a,
                                    selector |-> state.current.selector,
                                    text |-> state.current.textHint])
                       ELSE state.history
                /\ state' = [state EXCEPT !.history = state'.history,
                                          !.step = state.step + 1, !.current = null]
                /\ storage'.navai_state = state']_vars

\* the page has confirmed with a click the step that asked to type into #name:
\* the record holds step 1, the confirmed action and the step's selector, and
\* the session is at step 2 with no current step, saved
C16_Witness ==
  /\ state.active /\ state.step = 2 /\ state.current = null
  /\ Len(state.history) = 1
  /\ state.history[1].step = 1 /\ state.history[1].action = "click"
  /\ state.history[1].selector = "#name"
  /\ storage.navai_state = state

\* C17: skip performs the bookkeeping of action-confirmed: from every state, the
\* step skip takes is the step the handling of action-confirmed(current.action)
\* takes, so both leave the same history, step and current.
C17_SkipIsActionDone ==
  [][SKIP => \E a \in ActionType :
               /\ state.current # null => a = state.current.action
               /\ ACTION_DONE(a)]_vars

\* C19: a processTab call made for a trigger while a plan pass (the delayed
\* retry of a failed pass included) is in flight is dropped: it starts no pass,
\* and the call is gone, so that nothing runs for it later.
C19_TriggerMidPassIsDropped ==
  [][(processTab /\ executing >= 1)
       => /\ pass' = pass /\ processing' = processing /\ retries' = retries
          /\ calls' = calls - 1]_vars

\* the llmPlan call of the pass or retry p yields no step when fetch settles with res
llmYieldsNoStep(p, res) == llmPlan(PageData(p.page), stateOf(p), llmConfig, res) = null

\* what heuristicPlan returns for the snapshot of the pass or retry p and the session
heuristicStep(p) == heuristicPlan(PageData(p.page), state)

\* C20: in llm mode, when llmPlan yields no step, the same plan pass commits
\* exactly the step heuristicPlan returns for that snapshot and session state and
\* goes on to show it, or, when heuristicPlan returns null, clears current and
\* goes on to report that there is no step (its retry commits nothing); no
\* error is sent to the UI for the language model's failure.
C20_LlmFallback ==
  [][\A res \in LlmOutcomes :
       /\ (llmSettles(res) /\ llmYieldsNoStep(pass, res))
            => /\ state'.current = heuristicStep(pass)
               /\ pass'.pc = IF heuristicStep(pass) # null THEN "show" ELSE "nostep"
               /\ notice' = {}
       /\ \A i \in 1..Len(retries) :
            (retryLlmSettles(i, res) /\ llmYieldsNoStep(retries[i], res))
              => /\ IF heuristicStep(retries[i]) # null
                      THEN state'.current = heuristicStep(retries[i])
                      ELSE state' = state
                 /\ notice' = {}]_vars

\* A session in llm mode with an API key, started after the worker had loaded
\* its configuration, so that each of its passes called llmPlan: the step
\* committed is the one heuristicPlan gives for the form (type into #name) and
\* not a step of the language model (whose steps carry its thought).
C20_Witness ==
  /\ state.mode = "llm" /\ hasApiKey(llmConfig) /\ state.active
  /\ pass.pc = "show"
  /\ state.current # null
  /\ state.current.selector = "#name" /\ state.current.action = "type"
  /\ state.current.instruction # <<"P", "r", "e", "s", "s", " ", "i", "t">>

\* start has been handled by a worker that has loaded, and the processTab call
\* it scheduled is pending
startPending == loading = resolved /\ calls > 0 /\ state.active /\ ~state.completed

\* no call is pending and a pass is at its snapshot request: what it extracts
\* is planned for the session of that moment
passRuns == calls = 0 /\ pass.pc = "snapshot"

\* C18: every start is followed by a plan pass that runs for the new session:
\* the processTab call that start schedules leads to a pass at its snapshot
\* request, also when a pass or retry of the previous session is in flight
\* when start is handled.
C18_StartIsServed == startPending ~> passRuns

\* the action call a completion carries after llmPlan's regular expression:
\* click(id), type(id) or select(id) with id the idx of an element of page
namesElementAction(page, res) ==
  /\ res.kind = "http" /\ res.ok
  /\ parseResponseOf[res.text].ok
  /\ parseResponseOf[res.text].actionName \in {<<"c", "l", "i", "c", "k">>, <<"t", "y", "p", "e">>, <<"s", "e", "l", "e", "c", "t">>}
  /\ \E e \in Range(page.elements) : e.idx = parseResponseOf[res.text].elementId

namedAction(res) ==
  LET name == parseResponseOf[res.text].actionName
  IN  IF name = <<"t", "y", "p", "e">> THEN "type"
      ELSE IF name = <<"s", "e", "l", "e", "c", "t">> THEN "select"
      ELSE "click"

\* C21: llmPlan returns a step only when the completion carries an action call
\* click(id), type(id) or select(id) whose id is the idx of an element of the
\* snapshot, and then the step's action is the named one; for any other action
\* name, a missing id, wait, an absent id, a failed request or a text without
\* an action call it returns null.
C21_LlmPlanDecodes ==
  [][\A res \in LlmResponses :
       callLlmPlan(res)
         => IF namesElementAction(pass.page, res)
              THEN pass'.step # null /\ pass'.step.action = namedAction(res)
              ELSE pass'.step = null]_vars

\* the session states that agree with s on goal, step and history
sameSession(s) ==
  {[s EXCEPT !.mode = m, !.completed = d, !.current = c] :
     m \in PlannerMode, d \in BOOLEAN,
     c \in {null, GuidanceStep(s.step, "type", "#name", <<>>, <<>>)}}

C23_ActiveEndsOnlyOnStopOrCompletion ==
  [][(state.active /\ ~state'.active)
       => (STOP \/ (~state.completed /\ state'.completed))]_vars

\* sendMessage(tabId, EXTRACT) of a plan pass throws
snapshotThrows ==
  \E t \in Tabs : t # noTab /\ ~isRestrictedUrl(t.url) /\ snapshot(t, "throw")

isFullName(e) ==
  e.isInput /\ e.isFilled # "true" /\ e.isRequired = "true" /\ e.label = <<"F", "u", "l", "l", " ", "N", "a", "m", "e">>

isFilledEmail(e) == e.isInput /\ e.isFilled = "true" /\ e.label = <<"E", "m", "a", "i", "l">>

fullNameScenario ==
  /\ pass.pc = "heuristicPlan"
  /\ state.goal = <<"a", "p", "p", "l", "y", " ", "f", "o", "r", " ", "d", "r", "i", "v", "e", "r", "'", "s", " ", "l", "i", "c", "e", "n", "s", "e">>
  /\ state.history = <<>>
  /\ detectPhase(pass.page) = "form-fill"
  /\ Len(pass.page.elements) = 2
  /\ \E e \in Range(pass.page.elements) : isFullName(e)
  /\ \E e \in Range(pass.page.elements) : isFilledEmail(e)

scoreOf(e) ==
  score(e, tokenizeOf[state.goal], usedSelectorsOf(state), usedTextsOf(state),
        detectPhaseOf[pass.page], pass.page.hasOpenDialog)

isEmptyRequired(e) == e.isInput /\ e.isFilled # "true" /\ e.isRequired = "true"

\* C26: in form-fill phase every empty required input whose selector is not in
\* the history scores strictly higher than every element that is not an empty
\* required input, and the step heuristicPlan returns targets an empty required
\* input whenever such an unused one exists.
C26_RequiredInputsOutrank ==
  (pass.pc = "heuristicPlan" /\ detectPhaseOf[pass.page] = "form-fill")
    => \A e \in Range(pass.page.elements) :
         (isEmptyRequired(e) /\ e.selector \notin usedSelectorsOf(state))
           => /\ \A o \in Range(pass.page.elements) :
                   ~isEmptyRequired(o) => scoreOf(o) < scoreOf(e)
              /\ pass.step # null
              /\ \E t \in Range(pass.page.elements) :
                   isEmptyRequired(t) /\ t.selector = pass.step.selector

\* the branch of heuristicPlan that produced the step of the pass: the ranked
\* element, the input fallback or the button fallback
rankedPath ==
  /\ Len(rankedOf(pass.page, state)) > 0
  /\ rankedOf(pass.page, state)[1].score > 0

\* C27: the selector of a step heuristicPlan returns is the selector of no
\* record of state.history, whether the step comes from the ranking or from
\* one of the two fallbacks.
C27_NeverAUsedSelector ==
  (pass.pc = "heuristicPlan" /\ pass.step # null)
    => \A i \in 1..Len(state.history) : state.history[i].selector # pass.step.selector

\* the snapshot holds the element of the history's record, and the step comes
\* from a fallback
C27_Witness ==
  /\ pass.pc = "heuristicPlan" /\ pass.step # null
  /\ ~rankedPath
  /\ state.history # <<>>
  /\ \E e \in Range(pass.page.elements) : e.selector = state.history[1].selector

\* the first element of the pass's snapshot, in snapshot order, that is in cands
firstIn(cands) ==
  LET els == pass.page.elements
  IN  IF \A i \in 1..Len(els) : els[i] \notin cands THEN noElement
      ELSE els[CHOOSE i \in 1..Len(els) : els[i] \in cands /\ \A j \in 1..(i - 1) : els[j] \notin cands]

\* the element of the highest score, the earliest in snapshot order among equals
topRanked ==
  LET els == pass.page.elements
  IN  els[CHOOSE i \in 1..Len(els) :
            \A j \in 1..Len(els) :
              \/ scoreOf(els[j]) < scoreOf(els[i])
              \/ scoreOf(els[j]) = scoreOf(els[i]) /\ i <= j]

unfilledInputsInView ==
  {e \in Range(pass.page.elements) :
     e.isInput /\ e.isFilled # "true" /\ e.isInViewport /\ e.selector \notin usedSelectorsOf(state)}

buttonsAndLinksInView ==
  {e \in Range(pass.page.elements) :
     /\ ~e.isInput /\ e.isInViewport /\ e.selector \notin usedSelectorsOf(state)
     /\ (e.tag = <<"b", "u", "t", "t", "o", "n">> \/ e.role = <<"b", "u", "t", "t", "o", "n">> \/ e.tag = <<"a">>)}

\* the element the order of preference designates, or noElement
preferred ==
  IF \E e \in Range(pass.page.elements) : scoreOf(e) > 0 THEN topRanked
  ELSE IF unfilledInputsInView # {} THEN firstIn(unfilledInputsInView)
  ELSE firstIn(buttonsAndLinksInView)

stepTargets(e) ==
  IF e = noElement THEN pass.step = null
  ELSE /\ pass.step # null
       /\ pass.step.selector = e.selector
       /\ pass.step.textHint = substring(e.text, 60)

\* heuristicPlan's completion signal: success phase after the first step
signalsCompletion == detectPhaseOf[pass.page] = "success" /\ state.step > 1

\* C28 as the specification states it: when some element scores above 0
\* heuristicPlan returns the top-ranked element; otherwise the first in-viewport
\* unfilled input with an unused selector; otherwise the first in-viewport
\* non-input button or link with an unused selector; otherwise null.
C28_RankedThenFallbacks == pass.pc = "heuristicPlan" => stepTargets(preferred)

\* C28, amended: the order of preference applies unless the snapshot is in
\* success phase after the first step, in which case heuristicPlan returns null
\* whatever the scores and the fallback candidates are.
C28_RankedThenFallbacksUnlessComplete ==
  pass.pc = "heuristicPlan"
    => IF signalsCompletion THEN pass.step = null ELSE stepTargets(preferred)

\* the button fallback has chosen the first of two candidates
C28_Witness ==
  /\ pass.pc = "heuristicPlan" /\ pass.step # null
  /\ \A e \in Range(pass.page.elements) : scoreOf(e) <= 0
  /\ unfilledInputsInView = {}
  /\ Cardinality(buttonsAndLinksInView) = 2

\* the rules of detectPhase, each on its own
hasSuccessWord(page) ==
  \E w \in Range(SUCCESS_WORDS) :
    \/ includes(toLowerCase(page.title \o <<" ">> \o page.url), w)
    \/ includes(joinWith([i \in 1..Min(20, Len(page.elements)) |-> toLowerCase(page.elements[i].text)], <<" ">>), w)

hasLoginForm(page) ==
  /\ \E e \in Range(page.elements) :
       /\ e.isInput
       /\ \E t \in {<<"e", "m", "a", "i", "l">>, <<"u", "s", "e", "r", "n", "a", "m", "e">>} :
            \/ includes(orEmpty(e.inputType), t)
            \/ includes(toLowerCase(orEmpty(e.placeholder)), t)
            \/ includes(toLowerCase(e.label), t)
  /\ \E e \in Range(page.elements) :
       /\ e.isInput
       /\ \/ e.inputType = <<"p", "a", "s", "s", "w", "o", "r", "d">>
          \/ includes(toLowerCase(orEmpty(e.placeholder)), <<"p", "a", "s", "s", "w", "o", "r", "d">>)

hasEmptyInput(page) ==
  \E e \in Range(page.elements) :
    /\ e.isInput /\ e.isFilled # "true"
    /\ e.inputType \notin {<<"h", "i", "d", "d", "e", "n">>, <<"s", "u", "b", "m", "i", "t">>, <<"b", "u", "t", "t", "o", "n">>}

hasFilledInput(page) == \E e \in Range(page.elements) : e.isInput /\ e.isFilled = "true"

firstMatchingPhase(page) ==
  IF hasSuccessWord(page) THEN "success"
  ELSE IF hasLoginForm(page) THEN "login"
  ELSE IF hasEmptyInput(page) THEN "form-fill"
  ELSE IF hasFilledInput(page) THEN "submit-ready"
  ELSE "navigation"

\* firstMatchingPhase on the snapshots of this model, each computed once
firstMatchingPhaseOf == [page \in Snapshots |-> firstMatchingPhase(page)]

\* C29: the phase the planners get from detectPhase for the snapshot of the pass
\* is the first whose rule the snapshot matches, in the order success, login,
\* form-fill, submit-ready, and navigation when it matches none; it is the same
\* for every goal, step and history the snapshot is planned with.
C29_FirstMatchingPhase ==
  pass.pc # "planning" => detectPhaseOf[pass.page] = firstMatchingPhaseOf[pass.page]

\* a snapshot that matches the login rule and the form-fill rule, planned at
\* step 2 with a history: the step carries the login phrasing
C29_Witness ==
  /\ pass.pc = "heuristicPlan" /\ pass.step # null
  /\ hasLoginForm(pass.page) /\ hasEmptyInput(pass.page) /\ hasFilledInput(pass.page)
  /\ state.history # <<>>
  /\ pass.step.instruction = <<"E", "n", "t", "e", "r", " ", "y", "o", "u", "r", " ", "p", "a", "s", "s", "w", "o", "r", "d">>

\* the action the element calls for: click for inputs of type checkbox, radio,
\* submit, button or file, select for a select tag, type for any other input,
\* click for what is no input
actionOfElement(e) ==
  IF e.isInput /\ toLowerCase(orElse(e.inputType, <<"t", "e", "x", "t">>)) \in
       {<<"c", "h", "e", "c", "k", "b", "o", "x">>, <<"r", "a", "d", "i", "o">>, <<"s", "u", "b", "m", "i", "t">>, <<"b", "u", "t", "t", "o", "n">>, <<"f", "i", "l", "e">>}
    THEN "click"
  ELSE IF e.tag = <<"s", "e", "l", "e", "c", "t">> THEN "select"
  ELSE IF e.isInput THEN "type"
  ELSE "click"

\* C30: the action of a step heuristicPlan returns is the one its target element
\* calls for, on the ranked path and on both fallbacks, and no step returned by
\* heuristicPlan or by llmPlan has the action scroll or wait.
C30_ActionFollowsElement ==
  (pass.pc # "planning" /\ pass.step # null)
    => /\ pass.step.action \in {"click", "type", "select"}
       /\ pass.pc = "heuristicPlan"
            => \E e \in Range(pass.page.elements) :
                 e.selector = pass.step.selector /\ pass.step.action = actionOfElement(e)

\* heuristicPlan has returned a step on the drop-down
C30_Witness ==
  /\ pass.pc = "heuristicPlan" /\ pass.step # null
  /\ pass.step.selector = "#country" /\ pass.step.action = "select"

\* the retry callbacks that are waiting for llmPlan
retriesAtLlm(rs) == {i \in 1..Len(rs) : rs[i].pc = "llm"}

\* a plan pass or a retry calls llmPlan in this step
callsLlmPlan ==
  \/ pass.pc # "llm" /\ pass'.pc = "llm"
  \/ Cardinality(retriesAtLlm(retries')) > Cardinality(retriesAtLlm(retries))

\* a plan pass receives the snapshot r, which is no completion, with the mode not
\* llm or without a key
plansWithoutLlm(r) ==
  /\ pass.pc = "snapshot" /\ pass'.pc # "snapshot"
  /\ state.mode # "llm" \/ ~hasApiKey(llmConfig)
  /\ ~(state.step > 1 /\ isSuccessPage(PageData(r)))
  /\ snapshot(openTab, r)

\* C31: a plan pass or a retry calls llmPlan only in a step taken with
\* mode = llm and an API key in the worker's configuration (which is then in
\* the storage too); a pass that receives a snapshot in heuristic mode or
\* without a key calls no llmPlan, and what it commits is heuristicPlan's
\* result for that snapshot and session (nothing when that result is stuck or
\* null).
C31_LlmOnlyInLlmModeWithKey ==
  [][/\ callsLlmPlan
          => /\ state.mode = "llm" /\ hasApiKey(llmConfig)
             /\ storage.navai_llm # unset
     /\ \A r \in ExtractResponses \ {"throw", "nodata"} :
          plansWithoutLlm(r)
            => IF pass'.pc = "show"
                 THEN state'.current = heuristicPlan(PageData(r), state)
                 ELSE /\ pass'.pc \in {"nostep", "idle"}
                      /\ state'.current = null
                      /\ LET found == heuristicPlan(PageData(r), state)
                         IN  found = null \/ isStuck(found)]_vars

\* a session in llm mode of a worker without a key: the pass has committed a
\* step without a request
C31_Witness ==
  /\ state.active /\ state.mode = "llm" /\ ~hasApiKey(llmConfig)
  /\ loading = resolved
  /\ pass.pc = "show" /\ state.current # null

\* the planner's result found is no candidate: null, or discarded as stuck
noCandidate(found) == found = null \/ isStuck(found)

\* a plan pass whose planning has just yielded no candidate, the session not
\* being completed: heuristicPlan on the snapshot that arrives, or plan() when
\* fetch settles
findsNoCandidate ==
  /\ ~state.completed
  /\ \/ /\ pass.pc = "snapshot" /\ pass'.pc # "snapshot"
        /\ \E r \in SessionResponses \ {"throw"} :
             /\ ~plansWithLlm
             /\ ~detectsCompletion(PageData(r))
             /\ snapshot(openTab, r)
             /\ noCandidate(heuristicPlan(PageData(r), state))
     \/ /\ pass.pc = "llm"
        /\ \E res \in LlmOutcomes : llmSettles(res) /\ noCandidate(plan(pass, res))

\* C32: when the planning of a plan pass yields no candidate and the session is
\* not completed, that step sets current = null and saves the session with
\* nothing else changed, and the pass goes on to its last step, which
\* broadcasts the "no clear next step" notice, changes nothing of the session
\* or of its saved copy, and releases the guard.
C32_NoStepClearsCurrentAndNotifies ==
  [][/\ findsNoCandidate
          => /\ state' = [state EXCEPT !.current = null]
             /\ storage'.navai_state = state'
             /\ pass'.pc = "nostep"
     /\ noStep
          => /\ "ERROR:nostep" \in notice'
             /\ state' = state /\ storage' = storage
             /\ ~processing']_vars

\* a pass that found nothing on the compose panel, whose button was used, has
\* ended: the notice is out and the saved session has no current step
C32_Witness ==
  /\ notice = {"ERROR:nostep"} /\ pass.pc = "idle"
  /\ state.active /\ state.current = null /\ state.history # <<>>
  /\ storage.navai_state = state

\* ───────────────────────── passes, with fair scheduling ────────────────
\* One session after the other of a loaded worker, in either planner mode, on
\* any tab and any page: the page confirms steps, and a page that threw at the
\* snapshot request does not deliver a snapshot to the retry either. Each await
\* of a pass settles: the tab lookup and the snapshot request, the language
\* model's fetch (which llmPlan aborts on a timeout), and the messages to the tab.
GuardResponses == {"throw", "nodata", "form", "dialog", "success"}

\* tabs.get(tabId) and sendMessage(tabId, EXTRACT) of the pass settle (a
\* settlement that needs no planning is listed first)
tabSettles ==
  \/ snapshot(noTab, "nodata")
  \/ \E t \in Tabs \cup SchemeTabs, r \in GuardResponses : (r = "throw" => mayRetry) /\ snapshot(t, r)

\* the fetch of llmPlan settles
fetchSettles == \E res \in LlmOutcomes : llmSettles(res)

\* sendMessage(tabId, SHOW_STEP) settles
showSettles ==
  \/ showStep(TRUE)
  \/ mayRetry /\ showStep(FALSE)

NextGuard ==
  \/ loadState
  \/ \E g \in Goals, m \in PlannerMode :
       loading = resolved /\ ~state.active /\ mayCall /\ START(g, m)
  \/ \E a \in DoneActions : state.active /\ mayCall /\ maySessionAdvance /\ ACTION_DONE(a)
  \/ processTab
  \/ tabSettles
  \/ fetchSettles
  \/ completedSent
  \/ showSettles
  \/ noStep
  \/ \E i \in 1..Len(retries), r \in {"throw", "nodata"} : retryExtract(i, r)

\* The fetch is enabled to settle exactly while the pass is suspended in it, so
\* the last conjunct is WF_vars(fetchSettles) with its ENABLED written out.
SpecGuard ==
  /\ Init /\ [][NextGuard]_vars
  /\ WF_vars(tabSettles)
  /\ WF_vars(completedSent)
  /\ WF_vars(showSettles)
  /\ WF_vars(noStep)
  /\ ([]<>(pass.pc # "llm") \/ []<><<fetchSettles>>_vars)

\* the tab is missing, or its URL is missing or has one of the restricted schemes
RestrictedSchemes ==
  {<<"c", "h", "r", "o", "m", "e", ":", "/", "/">>,
   <<"c", "h", "r", "o", "m", "e", "-", "e", "x", "t", "e", "n", "s", "i", "o", "n", ":", "/", "/">>,
   <<"e", "d", "g", "e", ":", "/", "/">>,
   <<"a", "b", "o", "u", "t", ":">>,
   <<"c", "h", "r", "o", "m", "e", "-", "s", "e", "a", "r", "c", "h", ":", "/", "/">>,
   <<"d", "e", "v", "t", "o", "o", "l", "s", ":", "/", "/">>}

isMissingOrRestricted(t) ==
  \/ t = noTab
  \/ t.url = Undef
  \/ \E scheme \in RestrictedSchemes : startsWith(t.url, scheme)

MissingOrRestrictedTabs == {t \in Tabs \cup SchemeTabs : isMissingOrRestricted(t)}

\* the pass ends the way the tab check ends it
endsAtTabCheck ==
  /\ notice' = {"ERROR:restricted"}
  /\ ~processing' /\ pass'.pc = "idle"
  /\ retries' = retries
  /\ state' = state /\ storage' = storage

\* C33: a plan pass whose tab is missing, has no URL or has a URL of a
\* restricted scheme ends at the tab check: whatever the page would have
\* answered to a snapshot request, the outcome is the restricted-page error
\* broadcast, the session and its saved copy unchanged, no retry armed, and the
\* guard released.
C33_RestrictedPageEndsThePass ==
  [][(pass.pc = "snapshot" /\ pass'.pc # "snapshot")
       => \/ endsAtTabCheck
          \/ \A t \in MissingOrRestrictedTabs, r \in GuardResponses : ~snapshot(t, r)]_vars

\* the pass of an active session has just ended at the tab check
C33_Witness ==
  /\ notice = {"ERROR:restricted"}
  /\ state.active /\ ~processing /\ pass.pc = "idle"


\* C34: in every reachable state, a current step that is not null carries the
\* session's step counter as its stepNumber.
C34_CurrentIsNumberedWithStep ==
  state.current # null => state.current.stepNumber = state.step

\* a scheduled processTab call is made on a live session while no pass is in flight
triggerArrivesAfterPass ==
  /\ processTab
  /\ state.active /\ ~state.completed
  /\ pass.pc = "idle"

\* C35: the guard is set exactly while a pass is in flight, so every exit of a
\* pass releases it; a processTab call that is made on a live session after a
\* pass has ended is not dropped but starts a pass; and a guard that is set is
\* eventually released.
C35_GuardIsReleased ==
  /\ [](processing <=> pass.pc # "idle")
  /\ [][triggerArrivesAfterPass => processing' /\ pass'.pc = "snapshot"]_vars
  /\ (processing ~> ~processing)

\* a pass that was started after an earlier pass of the session had committed
\* a step and the page had confirmed it
C35_Witness ==
  /\ processing /\ pass.pc = "snapshot"
  /\ state.step > 1 /\ state.history # <<>>


\* ───────────────────────── the worker and the page's overlay ───────────
\* The content script of the tab, which the other specifications leave out:
\* its listener runs showOverlay(msg.step) on SHOW_STEP and hideOverlay() on
\* HIDE_OVERLAY, and its action listener and Done button hide the overlay and
\* send ACTION_DONE. The user works the panel and the page while the worker is
\* at rest, and the page answers every message, so that the step a pass sends is
\* the session's current step and its target is found.
ActuatorResponses == {"nodata", "form", "dialog", "success"}

\* a message to or from the content script that has not been handled yet
inTransit == notice \cap {"SHOW_STEP", "HIDE_OVERLAY", "ACTION_DONE"} # {}

\* nothing is scheduled, in flight or in transit
atRest == pass.pc = "idle" /\ calls = 0 /\ retries = <<>> /\ ~inTransit

\* case 'SHOW_STEP': showOverlay(msg.step)
showOverlay ==
  /\ "SHOW_STEP" \in notice
  /\ currentStep' = state.current
  /\ notice' = notice \ {"SHOW_STEP"}
  /\ UNCHANGED <<state, EMPTY_STATE, sharesHistory, llmConfig, processing, pass, retries,
                 calls, storage, loading>>

\* case 'HIDE_OVERLAY': hideOverlay()
hideOverlay ==
  /\ "HIDE_OVERLAY" \in notice
  /\ currentStep' = null
  /\ notice' = notice \ {"HIDE_OVERLAY"}
  /\ UNCHANGED <<state, EMPTY_STATE, sharesHistory, llmConfig, processing, pass, retries,
                 calls, storage, loading>>

\* the listener of listenForAction, or the Done button: hideOverlay(), then
\* send({ type: 'ACTION_DONE', action })
actionDetected ==
  /\ currentStep # null
  /\ currentStep' = null
  /\ notice' = {"ACTION_DONE", currentStep.action}
  /\ UNCHANGED <<state, EMPTY_STATE, sharesHistory, llmConfig, processing, pass, retries,
                 calls, storage, loading>>

StepActions == {"click", "type", "select"}

NextActuator ==
  \/ loadState
  \/ \E g \in Goals, m \in PlannerMode :
       loading = resolved /\ atRest /\ ~state.active /\ START(g, m)
  \/ atRest /\ state.active /\ STOP
  \/ atRest /\ state.active /\ maySessionAdvance /\ SKIP
  \/ atRest /\ state.active /\ maySessionAdvance /\ actionDetected
  \/ \E a \in StepActions : {"ACTION_DONE", a} \subseteq notice /\ ACTION_DONE(a)
  \/ ~inTransit /\ processTab
  \/ \E r \in ActuatorResponses : snapshot(openTab, r)
  \/ \E res \in LlmOutcomes : llmSettles(res)
  \/ completedSent
  \/ ~inTransit /\ showStep(TRUE)
  \/ ~inTransit /\ noStep
  \/ showOverlay
  \/ hideOverlay

SpecActuator == Init /\ [][NextActuator]_vars

\* C36: whenever nothing is scheduled, in flight or in transit, the overlay of
\* the page shows no step or the session's current step.
C36_OverlayShowsCurrent ==
  atRest => currentStep = null \/ currentStep = state.current


\* a START has been handled while the read of loadState is still pending
startedWhileLoading ==
  /\ loading # resolved
  /\ state.active /\ state.goal \in Goals /\ state.step = 1 /\ state.history = <<>>

\* C37: when loadState resolves after a START that was handled while it was
\* pending, the session is still active, with the started goal, step 1 and an
\* empty history.
C37_RehydrationKeepsTheStart ==
  [][(startedWhileLoading /\ loadState)
       => /\ state'.active /\ state'.goal = state.goal
          /\ state'.step = 1 /\ state'.history = <<>>]_vars


\* the pass of a session in llm mode reaches plan(page) on the snapshot r while
\* the panel's storage holds a config with an API key and the worker has loaded
plansInLlmModeWithStoredKey(r) ==
  /\ pass.pc = "snapshot" /\ pass'.pc # "snapshot"
  /\ state.mode = "llm"
  /\ loading = resolved
  /\ storage.navai_llm # unset /\ storage.navai_llm.apiKey # <<>>
  /\ ~detectsCompletion(PageData(r))
  /\ snapshot(openTab, r)

\* C38: once the worker has loaded, a pass of a session in llm mode that plans a
\* page while the stored config has an API key calls the language-model planner.
C38_PlanUsesTheStoredConfig ==
  [][\A r \in PageIds : plansInLlmModeWithStoredKey(r) => pass'.pc = "llm"]_vars

=============================================================================
